---- MODULE Spec2Model ----
(***************************************************************************)
(* The email analysis pipeline of yojimat/email-classifier:                *)
(*   EmailProcessingService.process_email                                  *)
(*     -> TextPreprocessingService.preprocess_text     (stage 1)           *)
(*     -> FeatureExtractionService.extract_features    (stage 2)           *)
(*     -> ClassificationService.classify_email         (stage 3)           *)
(*     -> ResponseGenerationService.generate_response  (stage 4)           *)
(* and EmailController.classify_email, which turns the outcome into an     *)
(* HTTP status.                                                            *)
(*                                                                         *)
(* Representation.                                                         *)
(*  - A raw text is described by what the code observes of it: the number  *)
(*    of blank characters around it (ws), the length of text.strip()       *)
(*    (trim_len), what the NLTK tokenizer and filters make of it (tokens,  *)
(*    canon: the length of the canonical text and the configured keywords  *)
(*    that occur in it), and what the regular expressions of the feature   *)
(*    extractor find in it (has_urls, exclamation_count, question_count).  *)
(*  - A probability (a Python float in [0,1]) is an exact rational         *)
(*    [num, den]; a reported confidence (a percentage rounded to one       *)
(*    decimal) is an integer number of tenths of a percent: 800 is 80.0.   *)
(*    On the value grids used here exact arithmetic with round-half-even   *)
(*    gives the same tenths as CPython's float arithmetic and round(x, 1). *)
(*  - An exception is [kind, context]: its class and the classes of the    *)
(*    exceptions it was raised from (Python's __context__ chain, whose     *)
(*    messages process_email and the services embed with str(e)).          *)
(***************************************************************************)
EXTENDS Integers, Sequences, FiniteSets, TLC

VARIABLES
    classifier,           \* ClassificationService._classifier: "None" or "model"
    external_ai_service,  \* ResponseGenerationService._external_ai_service: "None" or "svc"
    pc,                   \* position of the current process_email invocation
    email_content,        \* argument of process_email
    fault,                \* where an unexpected exception struck in this invocation
    start_time,           \* process_email: start_time (ms)
    now,                  \* the wall clock (ms), relative to the start of the invocation
    processed_email,      \* result of stage 1
    features,             \* result of stage 2
    classification,       \* result of stage 3
    response,             \* result of stage 4
    pending,              \* exception in flight to process_email's except clause
    analysis,             \* EmailAnalysis returned by process_email
    error,                \* exception raised by process_email
    status,               \* HTTP status EmailController.classify_email answers with
    log,                  \* last record process_email wrote to the log
    trace,                \* stages invoked so far in this invocation, in order
    scorer_out,           \* what the sentiment scorer did in this invocation
    ai_out                \* what the external AI service did in this invocation

VARIABLES
    AppConfig,            \* core/config.py: the class attributes of AppConfig that the services read
    models,               \* ModelRepository._models: model name -> model object (0: no entry)
    model_info,           \* ModelRepository._model_info: whether the name has a 'loaded' entry
    created,              \* model objects that transformers.pipeline has built so far
    loads,                \* per model name, the calls of pipeline(...) that built a model
    tpc,                  \* per thread, its position in load_classification_model
    model_name,           \* per thread, the argument of load_classification_model
    model,                \* per thread, the local variable model (0: unassigned)
    returned              \* per thread, what its last call returned or raised

service_vars == << classifier, external_ai_service, pc, email_content, fault,
                   start_time, now, processed_email, features, classification,
                   response, pending, analysis, error, status, log, trace,
                   scorer_out, ai_out >>
VARIABLES
    call,                 \* the function called directly, with its arguments
    result,               \* what that call returned
    container             \* container.py: the DIContainer, its flag and its instances

repo_vars == << models, model_info, created, loads >>
thread_vars == << tpc, model_name, model, returned >>

unit_vars == << call, result >>

vars == << container, AppConfig, service_vars, repo_vars, thread_vars, unit_vars >>

---------------------------------------------------------------------------
(* Bounds of the model *)

MaxProd == 4        \* configured productive keywords a text may contain
MaxUnprod == 3      \* configured unproductive keywords a text may contain

\* word counts (len(tokens)) of the texts
WordCounts == {0, 5, 60, 120}
\* numbers of '!' characters in the texts
ExclamationCounts == {0, 3, 4}
\* confidences the scorer may report, in 1/10000
ScorerScores == {0, 9000, 10000}
\* wall-clock time (ms) that may pass during one invocation
Delays == {0, 12}

---------------------------------------------------------------------------
(* Configuration: core/config.py *)

MIN_EMAIL_LENGTH == 10
MAX_EMAIL_LENGTH == 10000

PRODUCTIVE_KEYWORDS ==
    << "projeto", "reunião", "prazo", "entrega", "análise", "relatório",
       "proposta", "cliente", "desenvolvimento", "implementação", "solução",
       "estratégia", "planejamento", "resultado", "objetivo", "meta",
       "project", "meeting", "deadline", "delivery", "analysis", "report",
       "proposal", "client", "development", "implementation", "solution",
       "strategy", "planning", "result", "objective", "goal" >>

UNPRODUCTIVE_KEYWORDS ==
    << "spam", "promoção", "desconto", "oferta", "grátis", "urgente",
       "clique", "compre", "newsletter", "propaganda", "publicidade",
       "promotion", "discount", "offer", "free", "urgent", "click",
       "buy", "advertisement", "marketing", "sale" >>

CLASSIFICATION_MODEL == "distilbert-base-uncased-finetuned-sst-2-english"

\* the class attributes as the module sets them when it is imported (no
\* environment variable overrides a default)
AppConfigInit ==
    AppConfig = [MAX_EMAIL_LENGTH |-> MAX_EMAIL_LENGTH,
                 MIN_EMAIL_LENGTH |-> MIN_EMAIL_LENGTH,
                 CLASSIFICATION_MODEL |-> CLASSIFICATION_MODEL,
                 PRODUCTIVE_KEYWORDS |-> PRODUCTIVE_KEYWORDS,
                 UNPRODUCTIVE_KEYWORDS |-> UNPRODUCTIVE_KEYWORDS]

\* ConfigRepository: each getter returns the class attribute itself
get_min_email_length == AppConfig.MIN_EMAIL_LENGTH
get_max_email_length == AppConfig.MAX_EMAIL_LENGTH
get_productive_keywords == AppConfig.PRODUCTIVE_KEYWORDS
get_unproductive_keywords == AppConfig.UNPRODUCTIVE_KEYWORDS
get_classification_model_name == AppConfig.CLASSIFICATION_MODEL

---------------------------------------------------------------------------
(* Exceptions: core/domain/exceptions.py *)

\* the base class of every exception class
BaseOf ==
    [ EmailClassificationError |-> "Exception",
      InvalidEmailContentError |-> "EmailClassificationError",
      EmailTooShortError       |-> "InvalidEmailContentError",
      EmailTooLongError        |-> "InvalidEmailContentError",
      ModelNotAvailableError   |-> "EmailClassificationError",
      ClassificationFailedError |-> "EmailClassificationError",
      ResponseGenerationError  |-> "EmailClassificationError",
      ValueError               |-> "Exception",
      KeyError                 |-> "Exception",
      Exception                |-> "BaseException" ]

\* isinstance(e, cls) for an exception of class kind
RECURSIVE IsInstance(_, _)
IsInstance(kind, cls) ==
    IF kind = cls THEN TRUE
    ELSE IF kind \notin DOMAIN BaseOf THEN FALSE
    ELSE IsInstance(BaseOf[kind], cls)

NoError == [kind |-> "None", context |-> << >>]

\* raise Kind(...) outside any except clause
Raise(kind) == [kind |-> kind, context |-> << >>]

\* raise Kind(f"...{str(e)}") inside `except Exception as e`
RaiseFrom(kind, e) == [kind |-> kind, context |-> << e.kind >> \o e.context]

\* a call's outcome: a value or an exception
Ok(v) == [ok |-> TRUE, value |-> v, exc |-> NoError]
Fail(e) == [ok |-> FALSE, value |-> "None", exc |-> e]

---------------------------------------------------------------------------
(* Arithmetic on exact rationals *)

Abs(x) == IF x < 0 THEN -x ELSE x

RECURSIVE Gcd(_, _)
Gcd(a, b) == IF b = 0 THEN a ELSE Gcd(b, a % b)

\* the rational n/d (d > 0) in lowest terms
Rat(n, d) == LET g == Gcd(Abs(n), d) IN [num |-> n \div g, den |-> d \div g]
RatLess(a, b) == a.num * b.den < b.num * a.den
RatMin(a, b) == IF RatLess(b, a) THEN b ELSE a
RatMax(a, b) == IF RatLess(a, b) THEN b ELSE a
RatAdd(a, b) == Rat(a.num * b.den + b.num * a.den, a.den * b.den)
RatMul(a, b) == Rat(a.num * b.num, a.den * b.den)

\* n/d (n >= 0, d > 0) rounded to the nearest integer, ties to even
RoundHalfEven(n, d) ==
    LET q == n \div d
        r == n % d
    IN  IF 2 * r < d THEN q
        ELSE IF 2 * r > d THEN q + 1
        ELSE IF q % 2 = 0 THEN q ELSE q + 1

\* round(confidence * 100, 1), in tenths of a percent
RoundPercent(conf) == RoundHalfEven(conf.num * 1000, conf.den)

---------------------------------------------------------------------------
(* Raw texts *)

\* the first n elements of a sequence
Take(s, n) == SubSeq(s, 1, IF n < Len(s) THEN n ELSE Len(s))

\* a text of trimmed length 0: the empty text, or ws blank characters
Blank(ws) ==
    [ws |-> ws, trim_len |-> 0, tokens |-> 0,
     canon |-> [len |-> 0, productive |-> {}, unproductive |-> {}],
     has_urls |-> FALSE, exclamation_count |-> 0, question_count |-> 0]

\* n symbol characters such as '#', which cleaning removes, between ws
\* blank characters
Symbols(ws, n) == [Blank(ws) EXCEPT !.trim_len = n]

\* trimmed lengths at the bounds of validation
BoundaryLens == {MIN_EMAIL_LENGTH - 1, MIN_EMAIL_LENGTH,
                 MAX_EMAIL_LENGTH, MAX_EMAIL_LENGTH + 1}

\* the texts at the bounds of validation, with and without blanks around
BoundaryTexts ==
    { Blank(ws) : ws \in 0..1 }
    \cup { Symbols(ws, n) : ws \in 0..1, n \in BoundaryLens }

\* lengths of the canonical text
CanonLens == {0, MIN_EMAIL_LENGTH, MIN_EMAIL_LENGTH + 1}

\* texts of a valid length with every combination of content
ContentTexts ==
    { t \in [ ws : {0},
              trim_len : {MAX_EMAIL_LENGTH \div 2},
              tokens : WordCounts,
              canon : [ len : CanonLens,
                        productive : { 1..k : k \in 0..MaxProd },
                        unproductive : { 1..k : k \in 0..MaxUnprod } ],
              has_urls : BOOLEAN,
              exclamation_count : ExclamationCounts,
              question_count : {0} ] :
        /\ (t.canon.productive \cup t.canon.unproductive # {}) => t.canon.len > 0
        /\ t.canon.len > 0 => t.tokens > 0 }

\* the texts the model ranges over
Texts == BoundaryTexts \cup ContentTexts

\* len(text)
TextLen(text) == text.ws + text.trim_len

\* text.strip()
Strip(text) == [text EXCEPT !.ws = 0]

---------------------------------------------------------------------------
(* Stage 1: services/preprocessing_service.py *)

\* validate_email_content with the length bounds taken exclusive
validate_email_content_exclusive(text) ==
    IF TextLen(text) = 0 \/ TextLen(Strip(text)) = 0
    THEN Raise("InvalidEmailContentError")
    ELSE LET text_length == TextLen(Strip(text))
             min_length == get_min_email_length
             max_length == get_max_email_length
         IN  IF text_length <= min_length THEN Raise("EmailTooShortError")
             ELSE IF text_length >= max_length THEN Raise("EmailTooLongError")
             ELSE NoError

\* validate_email_content(text): the exception it raises, or NoError
validate_email_content(text) ==
    IF TextLen(text) = 0 \/ TextLen(Strip(text)) = 0
    THEN Raise("InvalidEmailContentError")
    ELSE LET text_length == TextLen(Strip(text))
             min_length == get_min_email_length
             max_length == get_max_email_length
         IN  IF text_length < min_length THEN Raise("EmailTooShortError")
             ELSE IF text_length > max_length THEN Raise("EmailTooLongError")
             ELSE NoError

\* preprocess_text without the call of validate_email_content
preprocess_text_unvalidated(text) ==
    Ok([original_text |-> text,
        processed_text |-> text.canon,
        word_count |-> text.tokens])

\* preprocess_text(text): validation first, then cleaning, tokenizing,
\* filtering and lemmatizing (NLTK), whose results the text record describes
preprocess_text(text) ==
    LET invalid == validate_email_content(text)
    IN  IF invalid # NoError THEN Fail(invalid)
        ELSE Ok([original_text |-> text,
                 processed_text |-> text.canon,
                 word_count |-> text.tokens])

NoProcessedEmail ==
    [original_text |-> Blank(0), processed_text |-> Blank(0).canon, word_count |-> 0]

---------------------------------------------------------------------------
(* Stage 1 on tokens: what preprocess_text does with the list word_tokenize  *)
(* returns                                                                  *)

\* the most tokens of a text
MaxTokens == 3

\* tokens of a cleaned, lower-cased text, with len(token)
TokenLength ==
    [t \in {"de", "the", "ok", "meetings", "projeto"} |->
        CASE t = "de" -> 2
          [] t = "the" -> 3
          [] t = "ok" -> 2
          [] t = "meetings" -> 8
          [] t = "projeto" -> 7]
Vocabulary == DOMAIN TokenLength

\* self._stop_words: those of stopwords.words('portuguese') and
\* stopwords.words('english') that are in the vocabulary
stop_words == {"de", "the"}

\* _filter_tokens that keeps the tokens of length 2
filter_tokens_keeps_short(tokens) ==
    SelectSeq(tokens, LAMBDA token : token \notin stop_words /\ TokenLength[token] >= 2)

\* _filter_tokens(tokens)
filter_tokens(tokens) ==
    SelectSeq(tokens, LAMBDA token : token \notin stop_words /\ TokenLength[token] > 2)

\* WordNetLemmatizer.lemmatize(token)
lemmatize(token) == IF token = "meetings" THEN "meeting" ELSE token

\* PorterStemmer.stem(token)
stem(token) ==
    IF token = "meeting" \/ token = "meetings" THEN "meet"
    ELSE IF token = "projeto" THEN "projeto"
    ELSE token

\* _lemmatize_tokens(tokens); raises: the lemmatizer raises and the tokens
\* are returned as they are
lemmatize_tokens(tokens, raises) ==
    IF raises THEN tokens ELSE [i \in DOMAIN tokens |-> lemmatize(tokens[i])]

\* _stem_tokens(tokens); raises: the stemmer raises and the tokens are
\* returned as they are
stem_tokens(tokens, raises) ==
    IF raises THEN tokens ELSE [i \in DOMAIN tokens |-> stem(tokens[i])]

\* ' '.join(strings), as the pieces of the joined string
RECURSIVE JoinSpaces(_)
JoinSpaces(strings) ==
    IF strings = << >> THEN << >>
    ELSE IF Len(strings) = 1 THEN strings
    ELSE << strings[1], " " >> \o JoinSpaces(Tail(strings))

\* the ProcessedEmail preprocess_text builds from the tokens of a valid text
ProcessedEmailOf(tokens, lemmatizer_raises, stemmer_raises) ==
    LET filtered_tokens == filter_tokens(tokens)
        lemmatized_tokens == lemmatize_tokens(filtered_tokens, lemmatizer_raises)
        stemmed_tokens == stem_tokens(lemmatized_tokens, stemmer_raises)
        processed_text == JoinSpaces(lemmatized_tokens)
    IN  [tokens |-> tokens,
         filtered_tokens |-> filtered_tokens,
         lemmatized_tokens |-> lemmatized_tokens,
         stemmed_tokens |-> stemmed_tokens,
         processed_text |-> processed_text,
         word_count |-> Len(tokens)]

---------------------------------------------------------------------------
(* Stage 2: services/feature_extraction_service.py *)

\* str.lower() of one character
lower(c) == IF c = "A" THEN "a" ELSE IF c = "B" THEN "b" ELSE c

\* str.lower() that leaves the string as it is
str_lower_none(string) == string

\* string.lower(), a string being the sequence of its characters
str_lower(string) == [i \in DOMAIN string |-> lower(string[i])]

\* needle in haystack
occurs_in(needle, haystack) ==
    \E start \in 0 .. Len(haystack) - Len(needle) :
        SubSeq(haystack, start + 1, start + Len(needle)) = needle

\* the positions in keywords of those for which
\* `keyword.lower() in text_lower` holds
keyword_hits(text, keywords) ==
    LET text_lower == str_lower(text)
    IN  { i \in DOMAIN keywords : occurs_in(str_lower(keywords[i]), text_lower) }

\* _find_keyword_matches(text, keywords): the configured keywords that occur
\* in the text, in configured order and casing, each once; hits: their
\* positions in keywords
RECURSIVE find_keyword_matches_from(_, _, _)
find_keyword_matches_from(hits, keywords, i) ==
    IF i > Len(keywords) THEN << >>
    ELSE (IF i \in hits THEN << keywords[i] >> ELSE << >>)
         \o find_keyword_matches_from(hits, keywords, i + 1)

find_keyword_matches(hits, keywords) == find_keyword_matches_from(hits, keywords, 1)

\* _extract_pattern_features(original_text)
extract_pattern_features(original_text) ==
    [has_urls |-> original_text.has_urls,
     exclamation_count |-> original_text.exclamation_count,
     question_count |-> original_text.question_count]

\* extract_features(processed_email)
extract_features(pe) ==
    LET productive_matches ==
            find_keyword_matches(pe.processed_text.productive, get_productive_keywords)
        unproductive_matches ==
            find_keyword_matches(pe.processed_text.unproductive, get_unproductive_keywords)
        pattern_features == extract_pattern_features(pe.original_text)
    IN  [text_length |-> pe.processed_text.len,
         word_count |-> pe.word_count,
         productive_keywords |-> productive_matches,
         unproductive_keywords |-> unproductive_matches,
         productive_score |-> Len(productive_matches),
         unproductive_score |-> Len(unproductive_matches),
         has_urls |-> pattern_features.has_urls,
         exclamation_count |-> pattern_features.exclamation_count,
         question_count |-> pattern_features.question_count]

NoFeatures == extract_features(NoProcessedEmail)

---------------------------------------------------------------------------
(* Stage 3: services/classification_service.py *)

PRODUCTIVE == "productive"
UNPRODUCTIVE == "unproductive"
EmailCategory == {PRODUCTIVE, UNPRODUCTIVE}

ClassificationResult(category, confidence, method_used, features_used) ==
    [category |-> category, confidence |-> confidence,
     method_used |-> method_used, features_used |-> features_used]

NoClassification == ClassificationResult("None", 0, "None", << >>)

\* what the scorer does when it is called: it raises, returns something that
\* is no list of {label, score}, or returns a label and a score
ScorerLabels == {"POSITIVE", "NEGATIVE", "NEUTRAL"}
ScorerOutcomes ==
    { [kind |-> k, label |-> "", score |-> 0] : k \in {"raise", "malformed"} }
    \cup [kind : {"result"}, label : ScorerLabels, score : ScorerScores]
ScorerNotCalled == [kind |-> "not_called", label |-> "", score |-> 0]

\* _adjust_confidence_with_features without the bounds 0.99 and 0.3
adjust_confidence_unclamped(base_confidence, f, category) ==
    LET c1 == IF f.has_urls /\ f.exclamation_count > 2
              THEN IF category = UNPRODUCTIVE
                   THEN RatAdd(base_confidence, Rat(1, 10))
                   ELSE RatAdd(base_confidence, Rat(-1, 10))
              ELSE base_confidence
        c2 == IF f.word_count < 20
              THEN IF category = UNPRODUCTIVE
                   THEN RatAdd(c1, Rat(5, 100))
                   ELSE RatAdd(c1, Rat(-5, 100))
              ELSE c1
    IN  c2

\* _adjust_confidence_with_features whose second test is an elif: a short
\* text is not looked at once the URL pattern has moved the confidence
adjust_confidence_first_only(base_confidence, f, category) ==
    IF f.has_urls /\ f.exclamation_count > 2
    THEN IF category = UNPRODUCTIVE
         THEN RatMin(RatAdd(base_confidence, Rat(1, 10)), Rat(99, 100))
         ELSE RatMax(RatAdd(base_confidence, Rat(-1, 10)), Rat(3, 10))
    ELSE IF f.word_count < 20
         THEN IF category = UNPRODUCTIVE
              THEN RatMin(RatAdd(base_confidence, Rat(5, 100)), Rat(99, 100))
              ELSE RatMax(RatAdd(base_confidence, Rat(-5, 100)), Rat(3, 10))
         ELSE base_confidence

\* _adjust_confidence_with_features(base_confidence, features, category)
adjust_confidence_with_features(base_confidence, f, category) ==
    LET c1 == IF f.has_urls /\ f.exclamation_count > 2
              THEN IF category = UNPRODUCTIVE
                   THEN RatMin(RatAdd(base_confidence, Rat(1, 10)), Rat(99, 100))
                   ELSE RatMax(RatAdd(base_confidence, Rat(-1, 10)), Rat(3, 10))
              ELSE base_confidence
        c2 == IF f.word_count < 20
              THEN IF category = UNPRODUCTIVE
                   THEN RatMin(RatAdd(c1, Rat(5, 100)), Rat(99, 100))
                   ELSE RatMax(RatAdd(c1, Rat(-5, 100)), Rat(3, 10))
              ELSE c1
    IN  c2

\* _combine_ml_and_rules whose keyword override keeps the scorer's confidence
combine_ml_and_rules_no_fixed_override(ml_label, ml_confidence, f) ==
    LET keyword_score == f.productive_score - f.unproductive_score
        blend == IF ml_label = "POSITIVE"
                 THEN IF keyword_score >= 0
                      THEN << PRODUCTIVE, ml_confidence >>
                      ELSE << UNPRODUCTIVE, RatMul(ml_confidence, Rat(8, 10)) >>
                 ELSE IF keyword_score > 2
                      THEN << PRODUCTIVE, ml_confidence >>
                      ELSE << UNPRODUCTIVE, ml_confidence >>
    IN  << blend[1], adjust_confidence_with_features(blend[2], f, blend[1]) >>

\* _combine_ml_and_rules(ml_label, ml_confidence, features): <<category, confidence>>
combine_ml_and_rules(ml_label, ml_confidence, f) ==
    LET keyword_score == f.productive_score - f.unproductive_score
        blend == IF ml_label = "POSITIVE"
                 THEN IF keyword_score >= 0
                      THEN << PRODUCTIVE, ml_confidence >>
                      ELSE << UNPRODUCTIVE, RatMul(ml_confidence, Rat(8, 10)) >>
                 ELSE IF keyword_score > 2
                      THEN << PRODUCTIVE, Rat(7, 10) >>
                      ELSE << UNPRODUCTIVE, ml_confidence >>
    IN  << blend[1], adjust_confidence_with_features(blend[2], f, blend[1]) >>

\* the scoring of _rule_based_classification whose URL rule lowers score
\* without raising max_score
rule_score_url_unweighted(f) ==
    LET kp == IF f.productive_score > 0 THEN f.productive_score * 3 ELSE 0
        ku == IF f.unproductive_score > 0 THEN f.unproductive_score * 3 ELSE 0
        optimal == 50 < f.word_count /\ f.word_count < 500
        short == ~optimal /\ f.word_count < 30
        lp == IF optimal THEN 2 ELSE 0
        lm == IF short THEN 1 ELSE 0
        um == IF f.has_urls THEN 1 ELSE 0
        em == IF f.exclamation_count > 3 THEN 2 ELSE 0
    IN  [score |-> kp - ku + lp - lm - um - em,
         max_score |-> kp + ku + lp + lm + em]

\* the scoring of _rule_based_classification whose short-length rule reads
\* word_count <= 30
rule_score_short_inclusive(f) ==
    LET kp == IF f.productive_score > 0 THEN f.productive_score * 3 ELSE 0
        ku == IF f.unproductive_score > 0 THEN f.unproductive_score * 3 ELSE 0
        optimal == 50 < f.word_count /\ f.word_count < 500
        short == ~optimal /\ f.word_count <= 30
        lp == IF optimal THEN 2 ELSE 0
        lm == IF short THEN 1 ELSE 0
        um == IF f.has_urls THEN 1 ELSE 0
        em == IF f.exclamation_count > 3 THEN 2 ELSE 0
    IN  [score |-> kp - ku + lp - lm - um - em,
         max_score |-> kp + ku + lp + lm + um + em]

\* score and max_score of _rule_based_classification after all rules
rule_score(f) ==
    LET kp == IF f.productive_score > 0 THEN f.productive_score * 3 ELSE 0
        ku == IF f.unproductive_score > 0 THEN f.unproductive_score * 3 ELSE 0
        optimal == 50 < f.word_count /\ f.word_count < 500
        short == ~optimal /\ f.word_count < 30
        lp == IF optimal THEN 2 ELSE 0
        lm == IF short THEN 1 ELSE 0
        um == IF f.has_urls THEN 1 ELSE 0
        em == IF f.exclamation_count > 3 THEN 2 ELSE 0
    IN  [score |-> kp - ku + lp - lm - um - em,
         max_score |-> kp + ku + lp + lm + um + em]

\* features_used of _rule_based_classification with the URL rule placed
\* before the length rule
rule_features_used_urls_first(f) ==
    (IF f.productive_score > 0 THEN << "productive_keywords" >> ELSE << >>)
    \o (IF f.unproductive_score > 0 THEN << "unproductive_keywords" >> ELSE << >>)
    \o (IF f.has_urls THEN << "has_urls" >> ELSE << >>)
    \o (IF 50 < f.word_count /\ f.word_count < 500 THEN << "optimal_length" >>
        ELSE IF f.word_count < 30 THEN << "short_length" >> ELSE << >>)
    \o (IF f.exclamation_count > 3 THEN << "excessive_exclamation" >> ELSE << >>)

\* features_used of _rule_based_classification
rule_features_used(f) ==
    (IF f.productive_score > 0 THEN << "productive_keywords" >> ELSE << >>)
    \o (IF f.unproductive_score > 0 THEN << "unproductive_keywords" >> ELSE << >>)
    \o (IF 50 < f.word_count /\ f.word_count < 500 THEN << "optimal_length" >>
        ELSE IF f.word_count < 30 THEN << "short_length" >> ELSE << >>)
    \o (IF f.has_urls THEN << "has_urls" >> ELSE << >>)
    \o (IF f.exclamation_count > 3 THEN << "excessive_exclamation" >> ELSE << >>)

\* _rule_based_classification that divides by max_score instead of
\* max_score + 1
rule_based_classification_unsmoothed(f, rule_fault) ==
    IF rule_fault THEN Fail(Raise("Exception"))
    ELSE
    LET r == rule_score(f)
        category == IF r.score > 0 THEN PRODUCTIVE ELSE UNPRODUCTIVE
        ratio == IF r.max_score = 0 THEN Rat(0, 1)
                 ELSE Rat(IF r.score > 0 THEN r.score ELSE Abs(r.score), r.max_score)
        confidence == RatMin(RatAdd(Rat(1, 2), RatMul(ratio, Rat(4, 10))), Rat(95, 100))
    IN  Ok(ClassificationResult(category, RoundPercent(confidence),
                                "rule_based", rule_features_used(f)))

\* _rule_based_classification that decides with score >= 0
rule_based_classification_ties_productive(f, rule_fault) ==
    IF rule_fault THEN Fail(Raise("Exception"))
    ELSE
    LET r == rule_score(f)
        category == IF r.score >= 0 THEN PRODUCTIVE ELSE UNPRODUCTIVE
        ratio == Rat(IF r.score > 0 THEN r.score ELSE Abs(r.score), r.max_score + 1)
        confidence == RatMin(RatAdd(Rat(1, 2), RatMul(ratio, Rat(4, 10))), Rat(95, 100))
    IN  Ok(ClassificationResult(category, RoundPercent(confidence),
                                "rule_based", rule_features_used(f)))

\* _rule_based_classification(features); rule_fault: an unexpected exception
\* is raised inside it
rule_based_classification(f, rule_fault) ==
    IF rule_fault THEN Fail(Raise("Exception"))
    ELSE
    LET r == rule_score(f)
        category == IF r.score > 0 THEN PRODUCTIVE ELSE UNPRODUCTIVE
        ratio == Rat(IF r.score > 0 THEN r.score ELSE Abs(r.score), r.max_score + 1)
        confidence == RatMin(RatAdd(Rat(1, 2), RatMul(ratio, Rat(4, 10))), Rat(95, 100))
    IN  Ok(ClassificationResult(category, RoundPercent(confidence),
                                "rule_based", rule_features_used(f)))

\* _is_suitable_for_ml_classification that accepts a text of exactly the
\* minimum length
is_suitable_for_ml_classification_inclusive(pe) ==
    LET min_length == get_min_email_length
    IN  pe.processed_text.len >= min_length

\* _is_suitable_for_ml_classification(processed_email)
is_suitable_for_ml_classification(pe) ==
    LET min_length == get_min_email_length
    IN  pe.processed_text.len > min_length

\* _ml_classification without the except clause that falls back to the rules
ml_classification_no_fallback(clf, pe, f, scorer, rule_fault) ==
    IF clf = "None" THEN Fail(Raise("ModelNotAvailableError"))
    ELSE IF scorer.kind = "raise" THEN Fail(Raise("Exception"))
    ELSE IF scorer.kind = "malformed" THEN Fail(Raise("KeyError"))
    ELSE LET ml_confidence == Rat(scorer.score, 10000)
             ml_label == scorer.label
             cc == combine_ml_and_rules(ml_label, ml_confidence, f)
         IN  Ok(ClassificationResult(cc[1], RoundPercent(cc[2]), "ml_with_rules",
                    << "ml_sentiment", "keywords", "text_patterns" >>))

\* _ml_classification(processed_email, features); scorer: what the call
\* self._classifier(text_input) does
ml_classification(clf, pe, f, scorer, rule_fault) ==
    LET attempt ==
            IF clf = "None" THEN Fail(Raise("ModelNotAvailableError"))
            ELSE IF scorer.kind = "raise" THEN Fail(Raise("Exception"))
            ELSE IF scorer.kind = "malformed" THEN Fail(Raise("KeyError"))
            ELSE LET ml_confidence == Rat(scorer.score, 10000)
                     ml_label == scorer.label
                     cc == combine_ml_and_rules(ml_label, ml_confidence, f)
                 IN  Ok(ClassificationResult(cc[1], RoundPercent(cc[2]), "ml_with_rules",
                            << "ml_sentiment", "keywords", "text_patterns" >>))
    IN  IF attempt.ok THEN attempt
        ELSE LET fallback == rule_based_classification(f, rule_fault)
             IN  IF fallback.ok THEN fallback
                 ELSE Fail(RaiseFrom(fallback.exc.kind, attempt.exc))

\* whether classify_email takes the ML path, and so calls the scorer
uses_ml(clf, pe) == clf # "None" /\ is_suitable_for_ml_classification(pe)

\* classify_email that treats a missing model as an error
classify_email_requires_model(clf, pe, f, scorer, rule_fault) ==
    LET chosen == IF is_suitable_for_ml_classification(pe)
                  THEN IF clf = "None" THEN Fail(Raise("ModelNotAvailableError"))
                       ELSE ml_classification(clf, pe, f, scorer, rule_fault)
                  ELSE rule_based_classification(f, rule_fault)
    IN  IF chosen.ok THEN chosen
        ELSE Fail(RaiseFrom("ClassificationFailedError", chosen.exc))

\* classify_email(processed_email, features)
classify_email(clf, pe, f, scorer, rule_fault) ==
    LET chosen == IF uses_ml(clf, pe)
                  THEN ml_classification(clf, pe, f, scorer, rule_fault)
                  ELSE rule_based_classification(f, rule_fault)
    IN  IF chosen.ok THEN chosen
        ELSE Fail(RaiseFrom("ClassificationFailedError", chosen.exc))

---------------------------------------------------------------------------
(* Stage 4: services/response_service.py *)

\* the three fixed template strings of each category
ProductiveTemplates == << "productive_0", "productive_1", "productive_2" >>
UnproductiveTemplates == << "unproductive_0", "unproductive_1", "unproductive_2" >>

\* a response: the text of a template with its {context} filled in, or the
\* text the external AI service generated
TemplateResponse(template, context) ==
    [source |-> "template", template |-> template, context |-> context]
AIResponse == [source |-> "ai", template |-> "", context |-> << >>]
NoResponse == [source |-> "None", template |-> "", context |-> << >>]

\* what the external AI service does when generate_response turns to it
AIOutcomes == {"unavailable", "raise", "empty", "text"}

\* _generate_context_for_productive without the slice [:3]
generate_context_for_productive_unsliced(productive_keywords) ==
    IF productive_keywords = << >> THEN << "default" >>
    ELSE LET keywords == productive_keywords
         IN  IF Len(keywords) = 1 THEN << "singular" >> \o keywords
             ELSE IF Len(keywords) = 2 THEN << "dual" >> \o keywords
             ELSE << "plural" >> \o keywords

\* _generate_context_for_productive(productive_keywords): the phrasing
\* variant and the keywords it names
generate_context_for_productive(productive_keywords) ==
    IF productive_keywords = << >> THEN << "default" >>
    ELSE LET keywords == Take(productive_keywords, 3)
         IN  IF Len(keywords) = 1 THEN << "singular" >> \o keywords
             ELSE IF Len(keywords) = 2 THEN << "dual" >> \o keywords
             ELSE << "plural" >> \o keywords

\* separator.join(strings), as the pieces of the joined string
RECURSIVE Join(_, _)
Join(strings, separator) ==
    IF strings = << >> THEN << >>
    ELSE IF Len(strings) = 1 THEN strings
    ELSE << strings[1], separator >> \o Join(Tail(strings), separator)

\* the sentence _generate_context_for_productive returns, as the pieces of
\* its f-string: the literal parts and the keywords between them
context_sentence(productive_keywords) ==
    LET context == generate_context_for_productive(productive_keywords)
        keywords == Tail(context)
    IN  IF context[1] = "default"
        THEN << "Acredito que podemos trabalhar juntos para alcançar os objetivos mencionados." >>
        ELSE IF context[1] = "singular"
        THEN << "Em relação ao ponto sobre ", keywords[1],
                ", acredito que podemos desenvolver uma abordagem eficaz." >>
        ELSE IF context[1] = "dual"
        THEN << "Em relação aos pontos sobre ", keywords[1], " e ", keywords[2],
                ", vejo grande potencial para colaboração." >>
        ELSE << "Em relação aos pontos sobre " >>
             \o Join(SubSeq(keywords, 1, Len(keywords) - 1), ", ")
             \o << " e ", keywords[Len(keywords)],
                   ", acredito que podemos desenvolver uma abordagem eficaz." >>

\* _select_productive_template whose first test reads word_count >= 100
select_productive_template_inclusive(f) ==
    IF f.word_count >= 100 /\ f.productive_score > 2 THEN 0
    ELSE IF f.word_count > 50 THEN 1
    ELSE 2

\* _select_productive_template(features): 0-based index
select_productive_template(f) ==
    IF f.word_count > 100 /\ f.productive_score > 2 THEN 0
    ELSE IF f.word_count > 50 THEN 1
    ELSE 2

\* _select_unproductive_template that tests the keyword score first
select_unproductive_template_keywords_first(f) ==
    IF f.unproductive_score > 2 THEN 0
    ELSE IF f.has_urls \/ f.exclamation_count > 2 THEN 1
    ELSE 2

\* _select_unproductive_template(features): 0-based index
select_unproductive_template(f) ==
    IF f.has_urls \/ f.exclamation_count > 2 THEN 1
    ELSE IF f.unproductive_score > 2 THEN 0
    ELSE 2

\* _generate_productive_response(features)
generate_productive_response(f) ==
    LET context == generate_context_for_productive(f.productive_keywords)
        template_index == select_productive_template(f)
        selected_template == ProductiveTemplates[template_index + 1]
    IN  TemplateResponse(selected_template, context)

\* _generate_unproductive_response(features)
generate_unproductive_response(f) ==
    LET template_index == select_unproductive_template(f)
    IN  TemplateResponse(UnproductiveTemplates[template_index + 1], << >>)

\* _generate_template_response(category, features); template_fault: an
\* unexpected exception is raised inside it
generate_template_response(category, f, template_fault) ==
    IF template_fault THEN Fail(Raise("Exception"))
    ELSE IF category = PRODUCTIVE THEN Ok(generate_productive_response(f))
    ELSE Ok(generate_unproductive_response(f))

\* whether generate_response calls generate_ai_response
calls_ai(svc, ai) == svc # "None" /\ ai # "unavailable"

\* the calls of generate_response that never asks is_available()
generate_response_calls_unchecked(svc, ai) ==
    IF svc = "None" THEN << "_generate_template_response" >>
    ELSE IF ai = "text" THEN << "generate_ai_response" >>
    ELSE << "generate_ai_response", "_generate_template_response" >>

\* the calls generate_response makes on the external AI service and on its
\* own template path, in the order it makes them
generate_response_calls(svc, ai) ==
    IF svc = "None" THEN << "_generate_template_response" >>
    ELSE IF ~calls_ai(svc, ai) THEN << "is_available", "_generate_template_response" >>
    ELSE IF ai = "text" THEN << "is_available", "generate_ai_response" >>
    ELSE << "is_available", "generate_ai_response", "_generate_template_response" >>

\* generate_response that lets a failure of the external AI service through
generate_response_no_fallback(svc, cls, f, ai, template_fault) ==
    IF calls_ai(svc, ai) /\ ai = "text" THEN Ok(AIResponse)
    ELSE IF calls_ai(svc, ai) THEN Fail(Raise("ResponseGenerationError"))
    ELSE LET tmpl == generate_template_response(cls.category, f, template_fault)
         IN  IF tmpl.ok THEN tmpl
             ELSE Fail(RaiseFrom("ResponseGenerationError", tmpl.exc))

\* generate_response without the outer except clause
generate_response_raw(svc, cls, f, ai, template_fault) ==
    IF calls_ai(svc, ai) /\ ai = "text" THEN Ok(AIResponse)
    ELSE generate_template_response(cls.category, f, template_fault)

\* generate_response(original_text, classification, features); ai: what the
\* external AI service does
generate_response(svc, cls, f, ai, template_fault) ==
    IF calls_ai(svc, ai) /\ ai = "text" THEN Ok(AIResponse)
    ELSE LET tmpl == generate_template_response(cls.category, f, template_fault)
         IN  IF tmpl.ok THEN tmpl
             ELSE Fail(RaiseFrom("ResponseGenerationError", tmpl.exc))

---------------------------------------------------------------------------
(* The orchestrator: services/email_service.py, core/domain/models.py,      *)
(* controllers/email_controller.py                                         *)

NoAnalysis ==
    [category |-> "None", confidence |-> 0, response |-> NoResponse, word_count |-> 0,
     processing_time |-> 0, keywords_found |-> << >>, sentiment_score |-> Rat(0, 1),
     timestamp |-> 0]

\* EmailAnalysis.__post_init__: whether the analysis data is accepted
post_init_ok(a) ==
    /\ 0 <= a.confidence /\ a.confidence <= 1000
    /\ a.word_count >= 0
    /\ a.processing_time >= 0

\* an EmailAnalysis whose keywords_found lists the unproductive keywords first
EmailAnalysis_keywords_swapped(cls, resp, pe, f, elapsed, timestamp) ==
    [category |-> cls.category,
     confidence |-> cls.confidence,
     response |-> resp,
     word_count |-> pe.word_count,
     processing_time |-> RoundHalfEven(elapsed, 10),
     keywords_found |-> f.unproductive_keywords \o f.productive_keywords,
     sentiment_score |-> Rat(cls.confidence, 1000),
     timestamp |-> timestamp]

\* the EmailAnalysis process_email builds; elapsed: (datetime.now() -
\* start_time) in ms, processing_time: round(seconds, 2) in 1/100 s
EmailAnalysis(cls, resp, pe, f, elapsed, timestamp) ==
    [category |-> cls.category,
     confidence |-> cls.confidence,
     response |-> resp,
     word_count |-> pe.word_count,
     processing_time |-> RoundHalfEven(elapsed, 10),
     keywords_found |-> f.productive_keywords \o f.unproductive_keywords,
     sentiment_score |-> Rat(cls.confidence, 1000),
     timestamp |-> timestamp]

\* the exception raised without the message of the exception e
pipeline_error_without_cause(e) == Raise("EmailClassificationError")

\* the exception process_email's except clause raises for the exception e
pipeline_error(e) == RaiseFrom("EmailClassificationError", e)

NoLog == [level |-> "None", elapsed |-> 0]

\* EmailController.classify_email: the status for an exception of process_email
controller_status(e) ==
    IF IsInstance(e.kind, "InvalidEmailContentError") THEN 400
    ELSE IF IsInstance(e.kind, "EmailClassificationError") THEN 422
    ELSE 500

\* where an unexpected exception may strike an invocation: nowhere, or
\* inside extract_features, _rule_based_classification or
\* _generate_template_response
Faults == {"none", "extract", "rule_path", "template_path"}

---------------------------------------------------------------------------
(* The model repository: infrastructure/repositories/model_repository.py   *)
(* load_classification_model takes no lock; a thread may be preempted      *)
(* between any two of its statements, and transformers.pipeline runs for a *)
(* long time outside the interpreter lock.                                 *)

MaxThreads == 2     \* threads that call load_classification_model

Threads == 1 .. MaxThreads

\* the model names the repository is asked for
ModelNames == {CLASSIFICATION_MODEL, "other-model"}

\* a thread that has not returned from a call
NoReturn == Fail(NoError)

\* except Exception as e: raise ModelNotAvailableError(f"...{str(e)}")
model_not_available == RaiseFrom("ModelNotAvailableError", Raise("Exception"))

\* ModelRepository.__init__ and no thread inside the repository
RepoInit ==
    /\ models = [n \in ModelNames |-> 0]
    /\ model_info = [n \in ModelNames |-> FALSE]
    /\ created = 0
    /\ loads = [n \in ModelNames |-> 0]

ThreadsInit ==
    /\ tpc = [t \in Threads |-> "idle"]
    /\ model_name = [t \in Threads |-> CLASSIFICATION_MODEL]
    /\ model = [t \in Threads |-> 0]
    /\ returned = [t \in Threads |-> NoReturn]

\* thread t calls load_classification_model(name)
LoadCall(t, name) ==
    /\ tpc[t] = "idle"
    /\ tpc' = [tpc EXCEPT ![t] = "check"]
    /\ model_name' = [model_name EXCEPT ![t] = name]
    /\ model' = [model EXCEPT ![t] = 0]
    /\ returned' = [returned EXCEPT ![t] = NoReturn]
    /\ UNCHANGED repo_vars
    /\ UNCHANGED << container, AppConfig, service_vars, unit_vars >>

\* if model_name in self._models: return self._models[model_name]
LoadCheck(t) ==
    /\ tpc[t] = "check"
    /\ IF models[model_name[t]] # 0
       THEN /\ returned' = [returned EXCEPT ![t] = Ok(models[model_name[t]])]
            /\ tpc' = [tpc EXCEPT ![t] = "idle"]
       ELSE /\ tpc' = [tpc EXCEPT ![t] = "load"]
            /\ UNCHANGED returned
    /\ UNCHANGED << repo_vars, model_name, model >>
    /\ UNCHANGED << container, AppConfig, service_vars, unit_vars >>

\* model = pipeline("sentiment-analysis", ...): a new model object is built,
\* or the loader raises and ModelNotAvailableError leaves the call
LoadPipeline(t, loader_ok) ==
    /\ tpc[t] = "load"
    /\ IF loader_ok
       THEN /\ created' = created + 1
            /\ loads' = [loads EXCEPT ![model_name[t]] = @ + 1]
            /\ model' = [model EXCEPT ![t] = created + 1]
            /\ tpc' = [tpc EXCEPT ![t] = "store"]
            /\ UNCHANGED returned
       ELSE /\ returned' = [returned EXCEPT ![t] = Fail(model_not_available)]
            /\ tpc' = [tpc EXCEPT ![t] = "idle"]
            /\ UNCHANGED << created, loads, model >>
    /\ UNCHANGED << models, model_info, model_name >>
    /\ UNCHANGED << container, AppConfig, service_vars, unit_vars >>

\* self._models[model_name] = model
LoadStore(t) ==
    /\ tpc[t] = "store"
    /\ models' = [models EXCEPT ![model_name[t]] = model[t]]
    /\ tpc' = [tpc EXCEPT ![t] = "info"]
    /\ UNCHANGED << model_info, created, loads, model_name, model, returned >>
    /\ UNCHANGED << container, AppConfig, service_vars, unit_vars >>

\* self._model_info[model_name] = {...}; return model
LoadReturn(t) ==
    /\ tpc[t] = "info"
    /\ model_info' = [model_info EXCEPT ![model_name[t]] = TRUE]
    /\ returned' = [returned EXCEPT ![t] = Ok(model[t])]
    /\ tpc' = [tpc EXCEPT ![t] = "idle"]
    /\ UNCHANGED << models, created, loads, model_name, model >>
    /\ UNCHANGED << container, AppConfig, service_vars, unit_vars >>

---------------------------------------------------------------------------
(* Direct calls of single functions *)

NoCall == [fn |-> "None"]
NoResult == [fn |-> "None"]

\* an EmailFeatures value with the fields the classifier reads
Features(productive_score, unproductive_score, word_count, has_urls, exclamation_count) ==
    [NoFeatures EXCEPT !.productive_score = productive_score,
                       !.unproductive_score = unproductive_score,
                       !.productive_keywords = Take(get_productive_keywords, productive_score),
                       !.unproductive_keywords = Take(get_unproductive_keywords, unproductive_score),
                       !.word_count = word_count,
                       !.has_urls = has_urls,
                       !.exclamation_count = exclamation_count]

---------------------------------------------------------------------------
(* The container: container.py *)

\* the most runs of initialize() that build anything
MaxRuns == 2

\* the keys of _repositories, _services and _controllers in the order in
\* which initialize() sets them
ComponentKeys ==
    << "config", "model", "file", "external_service",
       "preprocessing", "feature_extraction", "classification", "external_ai",
       "response", "email_processing", "file_processing", "email" >>
Components == { ComponentKeys[i] : i \in DOMAIN ComponentKeys }

\* DIContainer.__init__: empty dictionaries (0: no entry), not initialized;
\* runs: the runs of initialize() that got past its first test
DIContainer ==
    [initialized |-> FALSE, instances |-> [k \in Components |-> 0], runs |-> 0]

\* the dictionaries after the run has set the entries before position
\* fail_at; the entry of the external AI service is set only if OpenAI is
\* configured; an entry holds the number of the run that built its instance
instances_after(c, fail_at, openai_configured) ==
    [k \in Components |->
        LET i == CHOOSE j \in DOMAIN ComponentKeys : ComponentKeys[j] = k
        IN  IF i < fail_at /\ (k = "external_ai" => openai_configured)
            THEN c.runs + 1
            ELSE c.instances[k]]

\* initialize() that sets _initialized before it builds anything
initialize_flag_first(c, fail_at, openai_configured) ==
    IF c.initialized THEN [container |-> c, returned |-> Ok("None")]
    ELSE [container |->
              [initialized |-> TRUE,
               instances |-> instances_after(c, fail_at, openai_configured),
               runs |-> c.runs + 1],
          returned |-> IF fail_at > Len(ComponentKeys) THEN Ok("None")
                       ELSE Fail(Raise("Exception"))]

\* initialize(); fail_at: the position of the component whose constructor
\* raises, Len(ComponentKeys) + 1 if none does
initialize(c, fail_at, openai_configured) ==
    IF c.initialized THEN [container |-> c, returned |-> Ok("None")]
    ELSE [container |->
              [initialized |-> fail_at > Len(ComponentKeys),
               instances |-> instances_after(c, fail_at, openai_configured),
               runs |-> c.runs + 1],
          returned |-> IF fail_at > Len(ComponentKeys) THEN Ok("None")
                       ELSE Fail(Raise("Exception"))]

\* get_<key>(): _ensure_initialized, then the entry (None for a missing
\* external AI service)
get_component(c, key) ==
    IF ~c.initialized THEN Fail(Raise("RuntimeError"))
    ELSE Ok(c.instances[key])

\* container.initialize()
ContainerInitialize(fail_at, openai_configured) ==
    /\ container.runs < MaxRuns
    /\ LET r == initialize(container, fail_at, openai_configured)
       IN  /\ container' = r.container
           /\ call' = [fn |-> "initialize", container |-> container, fail_at |-> fail_at,
                       openai_configured |-> openai_configured]
           /\ result' = [fn |-> "initialize", returned |-> r.returned]
    /\ UNCHANGED << AppConfig, service_vars, repo_vars, thread_vars >>

\* container.get_<key>()
ContainerGet(key) ==
    /\ call' = [fn |-> "get", container |-> container, key |-> key]
    /\ result' = [fn |-> "get", returned |-> get_component(container, key)]
    /\ UNCHANGED << container, AppConfig, service_vars, repo_vars, thread_vars >>

---------------------------------------------------------------------------
(* The state machine *)

\* the container has built the repositories; ClassificationService.__init__
\* has set self._classifier = None and is about to call _initialize_classifier
Init ==
    /\ AppConfigInit
    /\ container = DIContainer
    /\ call = NoCall
    /\ result = NoResult
    /\ RepoInit
    /\ ThreadsInit
    /\ classifier = "None"
    /\ external_ai_service \in {"None", "svc"}
    /\ pc = "init"
    /\ email_content = Blank(0)
    /\ fault = "none"
    /\ start_time = 0
    /\ now = 0
    /\ processed_email = NoProcessedEmail
    /\ features = NoFeatures
    /\ classification = NoClassification
    /\ response = NoResponse
    /\ pending = NoError
    /\ analysis = NoAnalysis
    /\ error = NoError
    /\ status = 0
    /\ log = NoLog
    /\ trace = << >>
    /\ scorer_out = ScorerNotCalled
    /\ ai_out = "not_called"

\* _initialize_classifier: the configured model is loaded through the
\* repository (by this one thread: check, pipeline, store); if
\* ModelNotAvailableError is raised the classifier stays None
InitializeClassifier(loader_ok) ==
    /\ pc = "init"
    /\ pc' = "idle"
    /\ LET name == get_classification_model_name
       IN  IF models[name] # 0
           THEN /\ classifier' = "model"
                /\ UNCHANGED repo_vars
           ELSE IF loader_ok
           THEN /\ created' = created + 1
                /\ loads' = [loads EXCEPT ![name] = @ + 1]
                /\ models' = [models EXCEPT ![name] = created + 1]
                /\ model_info' = [model_info EXCEPT ![name] = TRUE]
                /\ classifier' = "model"
           ELSE /\ classifier' = "None"
                /\ UNCHANGED repo_vars
    /\ UNCHANGED << external_ai_service, email_content, fault, start_time, now,
                    processed_email, features, classification, response, pending,
                    analysis, error, status, log, trace, scorer_out, ai_out >>
    /\ UNCHANGED << container, AppConfig, thread_vars, unit_vars >>

\* process_email(email_content) is called: start_time = datetime.now()
ProcessEmail(text) ==
    /\ pc = "idle"
    /\ pc' = "stage1"
    /\ email_content' = text
    /\ start_time' = now
    /\ UNCHANGED << classifier, external_ai_service, fault, now, processed_email, features,
                    classification, response, pending, analysis, error, status, log,
                    trace, scorer_out, ai_out >>
    /\ UNCHANGED << container, AppConfig, repo_vars, thread_vars, unit_vars >>

\* Step 1: processed_email = preprocess_text(email_content)
Preprocess ==
    /\ pc = "stage1"
    /\ trace' = Append(trace, "normalize")
    /\ LET r == preprocess_text(email_content)
       IN  IF r.ok
           THEN /\ processed_email' = r.value
                /\ pc' = "stage2"
                /\ UNCHANGED pending
           ELSE /\ pending' = r.exc
                /\ pc' = "except"
                /\ UNCHANGED processed_email
    /\ UNCHANGED << classifier, external_ai_service, email_content, fault, start_time,
                    now, features, classification, response, analysis, error, status,
                    log, scorer_out, ai_out >>
    /\ UNCHANGED << container, AppConfig, repo_vars, thread_vars, unit_vars >>

\* Step 2: features = extract_features(processed_email); raises: an
\* unexpected exception strikes inside it
Extract(raises) ==
    /\ pc = "stage2"
    /\ trace' = Append(trace, "extract")
    /\ IF raises
       THEN /\ pending' = Raise("Exception")
            /\ fault' = "extract"
            /\ pc' = "except"
            /\ UNCHANGED features
       ELSE /\ features' = extract_features(processed_email)
            /\ pc' = "stage3"
            /\ UNCHANGED << pending, fault >>
    /\ UNCHANGED << classifier, external_ai_service, email_content, start_time,
                    now, processed_email, classification, response, analysis, error,
                    status, log, scorer_out, ai_out >>
    /\ UNCHANGED << container, AppConfig, repo_vars, thread_vars, unit_vars >>

\* step 3 with a classifier that drops its scorer once the scorer has failed
Classify_drops_scorer(scorer, rule_fault) ==
    /\ pc = "stage3"
    /\ trace' = Append(trace, "classify")
    /\ scorer_out' = IF uses_ml(classifier, processed_email) THEN scorer
                     ELSE ScorerNotCalled
    /\ classifier' = IF uses_ml(classifier, processed_email)
                        /\ scorer.kind \in {"raise", "malformed"}
                     THEN "None" ELSE classifier
    /\ LET r == classify_email(classifier, processed_email, features, scorer,
                               rule_fault)
       IN  IF r.ok
           THEN /\ classification' = r.value
                /\ pc' = "stage4"
                /\ UNCHANGED << pending, fault >>
           ELSE /\ pending' = r.exc
                /\ fault' = IF rule_fault THEN "rule_path" ELSE fault
                /\ pc' = "except"
                /\ UNCHANGED classification
    /\ UNCHANGED << external_ai_service, email_content, start_time,
                    now, processed_email, features, response, analysis, error, status,
                    log, ai_out >>
    /\ UNCHANGED << container, AppConfig, repo_vars, thread_vars, unit_vars >>

\* Step 3: classification = classify_email(processed_email, features);
\* rule_fault: an unexpected exception strikes inside the rule-based path,
\* if that path is taken
Classify(scorer, rule_fault) ==
    /\ pc = "stage3"
    /\ trace' = Append(trace, "classify")
    /\ scorer_out' = IF uses_ml(classifier, processed_email) THEN scorer
                     ELSE ScorerNotCalled
    /\ LET r == classify_email(classifier, processed_email, features, scorer,
                               rule_fault)
       IN  IF r.ok
           THEN /\ classification' = r.value
                /\ pc' = "stage4"
                /\ UNCHANGED << pending, fault >>
           ELSE /\ pending' = r.exc
                /\ fault' = IF rule_fault THEN "rule_path" ELSE fault
                /\ pc' = "except"
                /\ UNCHANGED classification
    /\ UNCHANGED << classifier, external_ai_service, email_content, start_time,
                    now, processed_email, features, response, analysis, error, status,
                    log, ai_out >>
    /\ UNCHANGED << container, AppConfig, repo_vars, thread_vars, unit_vars >>

\* Step 4: response = generate_response(email_content, classification, features);
\* template_fault: an unexpected exception strikes inside the template
\* path, if that path is taken
Respond(ai, template_fault) ==
    /\ pc = "stage4"
    /\ trace' = Append(trace, "respond")
    /\ ai_out' = IF external_ai_service = "None" THEN "not_called" ELSE ai
    /\ LET r == generate_response(external_ai_service, classification, features, ai,
                                  template_fault)
       IN  IF r.ok
           THEN /\ response' = r.value
                /\ pc' = "assemble"
                /\ UNCHANGED << pending, fault >>
           ELSE /\ pending' = r.exc
                /\ fault' = IF template_fault THEN "template_path" ELSE fault
                /\ pc' = "except"
                /\ UNCHANGED response
    /\ UNCHANGED << classifier, external_ai_service, email_content, start_time,
                    now, processed_email, features, classification, analysis, error,
                    status, log, scorer_out >>
    /\ UNCHANGED << container, AppConfig, repo_vars, thread_vars, unit_vars >>

\* the elapsed time is taken, the EmailAnalysis is built and returned; the
\* controller answers 200
Assemble(d) ==
    /\ pc = "assemble"
    /\ now' = now + d
    /\ LET processing_time == now' - start_time
           a == EmailAnalysis(classification, response, processed_email, features,
                              processing_time, now')
       IN  IF post_init_ok(a)
           THEN /\ analysis' = a
                /\ log' = [level |-> "info", elapsed |-> processing_time]
                /\ status' = 200
                /\ pc' = "returned"
                /\ UNCHANGED pending
           ELSE /\ pending' = Raise("ValueError")
                /\ pc' = "except"
                /\ UNCHANGED << analysis, log, status >>
    /\ UNCHANGED << classifier, external_ai_service, email_content, fault, start_time,
                    processed_email, features, classification, response, error, trace,
                    scorer_out, ai_out >>
    /\ UNCHANGED << container, AppConfig, repo_vars, thread_vars, unit_vars >>

\* an except clause that runs the pipeline again instead of raising
Except_retry(d) ==
    /\ pc = "except"
    /\ now' = now + d
    /\ log' = [level |-> "error", elapsed |-> now' - start_time]
    /\ pending' = NoError
    /\ pc' = "stage1"
    /\ UNCHANGED << classifier, external_ai_service, email_content, fault, start_time,
                    processed_email, features, classification, response, analysis,
                    error, status, trace, scorer_out, ai_out >>
    /\ UNCHANGED << container, AppConfig, repo_vars, thread_vars, unit_vars >>

\* except Exception as e: the elapsed time is taken and logged, and
\* EmailClassificationError is raised; the controller answers by its class
Except(d) ==
    /\ pc = "except"
    /\ now' = now + d
    /\ log' = [level |-> "error", elapsed |-> now' - start_time]
    /\ error' = pipeline_error(pending)
    /\ status' = controller_status(error')
    /\ pending' = NoError
    /\ pc' = "raised"
    /\ UNCHANGED << classifier, external_ai_service, email_content, fault, start_time,
                    processed_email, features, classification, response, analysis,
                    trace, scorer_out, ai_out >>
    /\ UNCHANGED << container, AppConfig, repo_vars, thread_vars, unit_vars >>

\* the caller has its answer; every value of the invocation is discarded
Finish ==
    /\ pc \in {"returned", "raised"}
    /\ pc' = "idle"
    /\ email_content' = Blank(0)
    /\ fault' = "none"
    /\ start_time' = 0
    /\ now' = 0
    /\ processed_email' = NoProcessedEmail
    /\ features' = NoFeatures
    /\ classification' = NoClassification
    /\ response' = NoResponse
    /\ pending' = NoError
    /\ analysis' = NoAnalysis
    /\ error' = NoError
    /\ status' = 0
    /\ log' = NoLog
    /\ trace' = << >>
    /\ scorer_out' = ScorerNotCalled
    /\ ai_out' = "not_called"
    /\ UNCHANGED << classifier, external_ai_service >>
    /\ UNCHANGED << container, AppConfig, repo_vars, thread_vars, unit_vars >>

Next ==
    \/ /\ pc = "idle"
       /\ \E text \in Texts : ProcessEmail(text)
    \/ Preprocess
    \/ \E raises \in BOOLEAN : Extract(raises)
    \/ \E scorer \in ScorerOutcomes, rule_fault \in BOOLEAN : Classify(scorer, rule_fault)
    \/ \E ai \in AIOutcomes, template_fault \in BOOLEAN : Respond(ai, template_fault)
    \/ \E d \in Delays : Assemble(d)
    \/ \E d \in Delays : Except(d)
    \/ Finish
    \/ \E loader_ok \in BOOLEAN : InitializeClassifier(loader_ok)

Spec == Init /\ [][Next]_vars

\* threads of the server calling the repository concurrently, while no
\* service is being constructed and no email is processed
NextLoad ==
    \/ \E t \in Threads, name \in ModelNames : LoadCall(t, name)
    \/ \E t \in Threads : LoadCheck(t)
    \/ \E t \in Threads, loader_ok \in BOOLEAN : LoadPipeline(t, loader_ok)
    \/ \E t \in Threads : LoadStore(t)
    \/ \E t \in Threads : LoadReturn(t)

SpecLoad == Init /\ [][NextLoad]_vars

---------------------------------------------------------------------------
(* _combine_ml_and_rules called directly, on a grid around the thresholds   *)
(* of the blend and of the adjustment                                       *)

\* scorer confidences, in 1/10000
BlendScores == {0, 2000, 2500, 3500, 5000, 9000, 9400, 9900, 10000}
\* << productive_score, unproductive_score >>: keyword scores -1, 0, 2, 3
BlendKeywordScores == { << 0, 1 >>, << 0, 0 >>, << 2, 0 >>, << 3, 0 >> }
BlendWordCounts == {19, 20}
BlendExclamationCounts == {2, 3}

BlendFeatures ==
    { Features(k[1], k[2], wc, urls, excl) :
        k \in BlendKeywordScores, wc \in BlendWordCounts,
        urls \in BOOLEAN, excl \in BlendExclamationCounts }

\* category, confidence = self._combine_ml_and_rules(ml_label, ml_confidence, features)
CombineMLAndRules(ml_label, ml_confidence, f) ==
    /\ call = NoCall
    /\ call' = [fn |-> "_combine_ml_and_rules", ml_label |-> ml_label,
                ml_confidence |-> ml_confidence, features |-> f]
    /\ LET r == combine_ml_and_rules(ml_label, ml_confidence, f)
       IN  result' = [fn |-> "_combine_ml_and_rules", category |-> r[1],
                      confidence |-> r[2]]
    /\ UNCHANGED << container, AppConfig, service_vars, repo_vars, thread_vars >>

NextBlend ==
    /\ call = NoCall
    /\ \E ml_label \in ScorerLabels, score \in BlendScores, f \in BlendFeatures :
          CombineMLAndRules(ml_label, Rat(score, 10000), f)

SpecBlend == Init /\ [][NextBlend]_vars

---------------------------------------------------------------------------
(* _rule_based_classification called directly, on a grid around the         *)
(* thresholds of its rules                                                  *)

RuleWordCounts == {29, 30, 50, 51, 499, 500}
RuleExclamationCounts == {3, 4}

RuleFeatures ==
    { Features(ps, us, wc, urls, excl) :
        ps \in 0 .. MaxProd, us \in 0 .. MaxUnprod, wc \in RuleWordCounts,
        urls \in BOOLEAN, excl \in RuleExclamationCounts }

\* self._rule_based_classification(features)
RuleBasedClassification(f) ==
    /\ call = NoCall
    /\ call' = [fn |-> "_rule_based_classification", features |-> f]
    /\ LET r == rule_based_classification(f, FALSE)
       IN  result' = [fn |-> "_rule_based_classification", value |-> r.value]
    /\ UNCHANGED << container, AppConfig, service_vars, repo_vars, thread_vars >>

NextRule ==
    /\ call = NoCall
    /\ \E f \in RuleFeatures : RuleBasedClassification(f)

SpecRule == Init /\ [][NextRule]_vars

---------------------------------------------------------------------------
(* _ml_classification and _rule_based_classification called directly: the  *)
(* two paths of the classifier on the same features                         *)

PathFeatures == RuleFeatures \cup BlendFeatures

\* self._ml_classification(processed_email, features) with a model loaded;
\* the text matters only through what the scorer answers
MLClassification(f, scorer) ==
    /\ call = NoCall
    /\ call' = [fn |-> "_ml_classification", features |-> f, scorer |-> scorer]
    /\ LET r == ml_classification("model", NoProcessedEmail, f, scorer, FALSE)
       IN  result' = [fn |-> "_ml_classification", value |-> r.value]
    /\ UNCHANGED << container, AppConfig, service_vars, repo_vars, thread_vars >>

NextPaths ==
    \/ /\ call = NoCall
       /\ \E f \in PathFeatures : RuleBasedClassification(f)
    \/ /\ call = NoCall
       /\ \E f \in PathFeatures, scorer \in ScorerOutcomes : MLClassification(f, scorer)

SpecPaths == Init /\ [][NextPaths]_vars

---------------------------------------------------------------------------
(* generate_response called directly, with the calls it makes recorded      *)

ResponseCategories == {PRODUCTIVE, UNPRODUCTIVE}

\* self.generate_response(original_text, classification, features) on the
\* service as the container built it, with or without an external AI service
GenerateResponse(category, f, ai, template_fault) ==
    /\ call' = [fn |-> "generate_response", category |-> category, features |-> f,
                ai |-> IF external_ai_service = "None" THEN "not_called" ELSE ai,
                template_fault |-> template_fault]
    /\ LET cls == ClassificationResult(category, 0, "rule_based", << >>)
           r == generate_response(external_ai_service, cls, f, ai, template_fault)
       IN  result' = [fn |-> "generate_response", ok |-> r.ok, value |-> r.value,
                      exc |-> r.exc,
                      calls |-> generate_response_calls(external_ai_service, ai)]
    /\ UNCHANGED << container, AppConfig, service_vars, repo_vars, thread_vars >>

NextRespond ==
    /\ call = NoCall
    /\ \E category \in ResponseCategories, f \in RuleFeatures, ai \in AIOutcomes,
          template_fault \in BOOLEAN :
          GenerateResponse(category, f, ai, template_fault)

SpecRespond == Init /\ [][NextRespond]_vars

---------------------------------------------------------------------------
(* preprocess_text called directly on a valid text, given by its tokens     *)

RECURSIVE SeqsUpTo(_, _)
\* the sequences of at most n elements of S
SeqsUpTo(S, n) ==
    IF n = 0 THEN { << >> }
    ELSE LET shorter == SeqsUpTo(S, n - 1)
         IN  shorter \cup { Append(q, x) : q \in shorter, x \in S }

\* self.preprocess_text(text) for a valid text that tokenizes to tokens
PreprocessText(tokens, lemmatizer_raises, stemmer_raises) ==
    /\ call' = [fn |-> "preprocess_text", tokens |-> tokens,
                lemmatizer_raises |-> lemmatizer_raises,
                stemmer_raises |-> stemmer_raises]
    /\ result' = [fn |-> "preprocess_text",
                  value |-> ProcessedEmailOf(tokens, lemmatizer_raises, stemmer_raises)]
    /\ UNCHANGED << container, AppConfig, service_vars, repo_vars, thread_vars >>

NextTokens ==
    /\ call = NoCall
    /\ \E tokens \in SeqsUpTo(Vocabulary, MaxTokens),
          lemmatizer_raises \in BOOLEAN, stemmer_raises \in BOOLEAN :
          PreprocessText(tokens, lemmatizer_raises, stemmer_raises)

SpecTokens == Init /\ [][NextTokens]_vars

---------------------------------------------------------------------------
(* _find_keyword_matches and extract_features called directly               *)

\* the longest text searched
MaxTextLen == 3

\* the characters of the texts searched
Alphabet == {"a", "b", "A", "B"}

\* a configured keyword list, with upper-case letters in it
SampleKeywords == << << "A", "b" >>, << "b", "a" >>, << "B" >> >>

QuestionCounts == {0, 2}

\* valid texts, with and without question marks
ExtractTexts ==
    { [t EXCEPT !.question_count = q] :
        t \in { c \in ContentTexts : c.tokens > 0 }, q \in QuestionCounts }

\* self._find_keyword_matches(text, keywords)
FindKeywordMatches(text, keywords) ==
    /\ call' = [fn |-> "_find_keyword_matches", text |-> text, keywords |-> keywords]
    /\ result' = [fn |-> "_find_keyword_matches",
                  value |-> find_keyword_matches(keyword_hits(text, keywords), keywords)]
    /\ UNCHANGED << container, AppConfig, service_vars, repo_vars, thread_vars >>

\* self.extract_features(processed_email) on what preprocess_text returned
\* for a valid text
ExtractFeatures(text) ==
    /\ call' = [fn |-> "extract_features", processed_email |-> preprocess_text(text).value]
    /\ result' = [fn |-> "extract_features",
                  value |-> extract_features(preprocess_text(text).value)]
    /\ UNCHANGED << container, AppConfig, service_vars, repo_vars, thread_vars >>

NextExtract ==
    \/ /\ call = NoCall
       /\ \E text \in SeqsUpTo(Alphabet, MaxTextLen) : FindKeywordMatches(text, SampleKeywords)
    \/ /\ call = NoCall
       /\ \E text \in ExtractTexts : ExtractFeatures(text)

SpecExtract == Init /\ [][NextExtract]_vars

---------------------------------------------------------------------------
(* _generate_template_response called directly, on a grid around the        *)
(* thresholds of the template selection                                     *)

TemplateWordCounts == {50, 51, 100, 101}
TemplateExclamationCounts == {2, 3}

TemplateFeatures ==
    { Features(ps, us, wc, urls, excl) :
        ps \in 0 .. MaxProd, us \in 0 .. MaxUnprod, wc \in TemplateWordCounts,
        urls \in BOOLEAN, excl \in TemplateExclamationCounts }

\* self._generate_template_response(category, features)
GenerateTemplateResponse(category, f) ==
    /\ call' = [fn |-> "_generate_template_response", category |-> category,
                features |-> f]
    /\ LET r == generate_template_response(category, f, FALSE)
       IN  result' = [fn |-> "_generate_template_response", value |-> r.value]
    /\ UNCHANGED << container, AppConfig, service_vars, repo_vars, thread_vars >>

\* lists of productive keywords as extract_features finds them: runs of the
\* configured list, of 0 to MaxProd keywords
KeywordLists ==
    { SubSeq(get_productive_keywords, i, i + n - 1) : i \in 1 .. MaxProd, n \in 0 .. MaxProd }

\* self._generate_context_for_productive(productive_keywords)
GenerateContextForProductive(productive_keywords) ==
    /\ call' = [fn |-> "_generate_context_for_productive",
                productive_keywords |-> productive_keywords]
    /\ result' = [fn |-> "_generate_context_for_productive",
                  value |-> context_sentence(productive_keywords)]
    /\ UNCHANGED << container, AppConfig, service_vars, repo_vars, thread_vars >>

NextTemplate ==
    \/ /\ call = NoCall
       /\ \E category \in ResponseCategories, f \in TemplateFeatures :
             GenerateTemplateResponse(category, f)
    \/ /\ call = NoCall
       /\ \E productive_keywords \in KeywordLists :
             GenerateContextForProductive(productive_keywords)

SpecTemplate == Init /\ [][NextTemplate]_vars

---------------------------------------------------------------------------
(* The model repository called by one thread: each method runs to its end   *)
(* before the next call                                                     *)

\* the most model objects the loader builds
MaxLoads == 3

\* load_classification_model(name) run to its end on the cache ms:
\* the outcome, the cache, the loaded flags and the objects built after it
load_classification_model(ms, info, built, name, loader_ok) ==
    IF ms[name] # 0
    THEN [returned |-> Ok(ms[name]), models |-> ms, model_info |-> info,
          created |-> built, loader_calls |-> 0]
    ELSE IF loader_ok
    THEN [returned |-> Ok(built + 1),
          models |-> [ms EXCEPT ![name] = built + 1],
          model_info |-> [info EXCEPT ![name] = TRUE],
          created |-> built + 1, loader_calls |-> 1]
    ELSE [returned |-> Fail(model_not_available), models |-> ms, model_info |-> info,
          created |-> built, loader_calls |-> 1]

\* what a call leaves in call: the method, its argument and the cache it found
RepoCall(fn, name) ==
    [fn |-> fn, model_name |-> name, models |-> models, model_info |-> model_info]

\* repository.load_classification_model(name)
LoadClassificationModel(name, loader_ok) ==
    /\ created < MaxLoads
    /\ LET r == load_classification_model(models, model_info, created, name, loader_ok)
       IN  /\ models' = r.models
           /\ model_info' = r.model_info
           /\ created' = r.created
           /\ loads' = [loads EXCEPT ![name] = @ + (r.created - created)]
           /\ call' = RepoCall("load_classification_model", name)
           /\ result' = [fn |-> "load_classification_model", returned |-> r.returned,
                         loader_calls |-> r.loader_calls]
    /\ UNCHANGED << container, AppConfig, service_vars, thread_vars >>

\* unload_model that leaves the 'loaded' flag of the model's info set
UnloadModel_keeps_flag(name) ==
    /\ models' = [models EXCEPT ![name] = 0]
    /\ call' = RepoCall("unload_model", name)
    /\ result' = [fn |-> "unload_model"]
    /\ UNCHANGED << model_info, created, loads >>
    /\ UNCHANGED << container, AppConfig, service_vars, thread_vars >>

\* repository.unload_model(name)
UnloadModel(name) ==
    /\ IF models[name] # 0
       THEN /\ models' = [models EXCEPT ![name] = 0]
            /\ model_info' = [model_info EXCEPT ![name] = FALSE]
       ELSE UNCHANGED << models, model_info >>
    /\ call' = RepoCall("unload_model", name)
    /\ result' = [fn |-> "unload_model"]
    /\ UNCHANGED << created, loads >>
    /\ UNCHANGED << container, AppConfig, service_vars, thread_vars >>

\* repository.is_model_available(name): a cached model is available, any
\* other is loaded to find out
IsModelAvailable(name, loader_ok) ==
    /\ created < MaxLoads
    /\ LET r == load_classification_model(models, model_info, created, name, loader_ok)
       IN  /\ models' = r.models
           /\ model_info' = r.model_info
           /\ created' = r.created
           /\ loads' = [loads EXCEPT ![name] = @ + (r.created - created)]
           /\ call' = RepoCall("is_model_available", name)
           /\ result' = [fn |-> "is_model_available", returned |-> Ok(r.returned.ok),
                         loader_calls |-> r.loader_calls]
    /\ UNCHANGED << container, AppConfig, service_vars, thread_vars >>

\* repository.get_loaded_models(): the names whose info says 'loaded'
GetLoadedModels ==
    /\ call' = RepoCall("get_loaded_models", "None")
    /\ result' = [fn |-> "get_loaded_models",
                  returned |-> Ok({ n \in ModelNames : model_info[n] })]
    /\ UNCHANGED repo_vars
    /\ UNCHANGED << container, AppConfig, service_vars, thread_vars >>

NextRepo ==
    \/ \E name \in ModelNames, loader_ok \in BOOLEAN : LoadClassificationModel(name, loader_ok)
    \/ \E name \in ModelNames : UnloadModel(name)
    \/ \E name \in ModelNames, loader_ok \in BOOLEAN : IsModelAvailable(name, loader_ok)
    \/ GetLoadedModels

SpecRepo == Init /\ [][NextRepo]_vars

\* the application calling the container: initialize() and the getters in
\* any order
NextContainer ==
    \/ \E fail_at \in 1 .. Len(ComponentKeys) + 1, openai_configured \in BOOLEAN :
          ContainerInitialize(fail_at, openai_configured)
    \/ \E key \in Components : ContainerGet(key)

SpecContainer == Init /\ [][NextContainer]_vars

---------------------------------------------------------------------------
(* Properties *)

\* the raw text of the invocation passes validation
ValidInput ==
    /\ email_content.trim_len >= MIN_EMAIL_LENGTH
    /\ email_content.trim_len <= MAX_EMAIL_LENGTH

\* the invocation is past stage 3 and classify_email returned
Classified == Len(trace) >= 3 /\ classification # NoClassification

\* C1: for every raw text whose trimmed length is within [MIN_EMAIL_LENGTH,
\* MAX_EMAIL_LENGTH], process_email raises nothing and returns an
\* EmailAnalysis whose confidence is in [0, 100] and whose category is
\* productive or unproductive, whatever the scorer and the external AI
\* service do (absent, raising, any label and confidence in [0,1], empty
\* output), when no unexpected exception strikes and the clock does not run
\* backwards.
C1_ValidTextIsAnalysed ==
    (ValidInput /\ fault = "none") =>
        /\ pc \notin {"except", "raised"}
        /\ pending = NoError /\ error = NoError
        /\ pc = "returned" =>
              /\ analysis.confidence >= 0 /\ analysis.confidence <= 1000
              /\ analysis.category \in EmailCategory
              /\ status = 200

C1_Witness ==
    /\ pc = "returned" /\ ValidInput
    /\ scorer_out.kind = "raise" /\ ai_out = "empty"
    /\ analysis.category = PRODUCTIVE

\* C2: every failure of process_email reaches the caller as the error kind of
\* its cause: invalid input as InvalidEmailContentError / EmailTooShortError /
\* EmailTooLongError (status 400), a classifier fault as
\* ClassificationFailedError, a response fault as ResponseGenerationError,
\* anything else as the pipeline's EmailClassificationError (status 422).
C2_DistinctErrorKinds ==
    pc = "raised" =>
        /\ (~ValidInput) =>
              /\ error.kind = validate_email_content(email_content).kind
              /\ status = 400
        /\ fault = "rule_path" =>
              error.kind = "ClassificationFailedError" /\ status = 422
        /\ fault = "template_path" =>
              error.kind = "ResponseGenerationError" /\ status = 422
        /\ fault = "extract" =>
              error.kind = "EmailClassificationError" /\ status = 422

\* C3: preprocess_text validates first: an empty or blank text raises
\* InvalidEmailContentError, a trimmed length of MIN_EMAIL_LENGTH - 1 raises
\* EmailTooShortError, of MAX_EMAIL_LENGTH + 1 EmailTooLongError, and trimmed
\* lengths MIN_EMAIL_LENGTH and MAX_EMAIL_LENGTH are accepted.
C3_ValidationBoundaries ==
    (trace = << "normalize" >> /\ pc \in {"stage2", "except"}) =>
        LET n == email_content.trim_len
        IN  /\ n = 0 =>
                 pc = "except" /\ pending.kind = "InvalidEmailContentError"
            /\ n = MIN_EMAIL_LENGTH - 1 =>
                 pc = "except" /\ pending.kind = "EmailTooShortError"
            /\ n = MAX_EMAIL_LENGTH + 1 =>
                 pc = "except" /\ pending.kind = "EmailTooLongError"
            /\ n \in {MIN_EMAIL_LENGTH, MAX_EMAIL_LENGTH} =>
                 /\ pc = "stage2" /\ pending = NoError
                 /\ processed_email.original_text = email_content
            /\ pc = "except" => processed_email = NoProcessedEmail

C3_Witness ==
    /\ pc = "except" /\ trace = << "normalize" >>
    /\ email_content.trim_len = MIN_EMAIL_LENGTH - 1
    /\ TextLen(email_content) = MIN_EMAIL_LENGTH
    /\ pending.kind = "EmailTooShortError"

\* the class of the exception that reached process_email's except clause
OriginalCause ==
    IF ~ValidInput THEN validate_email_content(email_content).kind
    ELSE IF fault = "extract" THEN "Exception"
    ELSE IF fault = "rule_path" THEN "ClassificationFailedError"
    ELSE IF fault = "template_path" THEN "ResponseGenerationError"
    ELSE "ValueError"

StageOrder == << "normalize", "extract", "classify", "respond" >>

\* C5: within one invocation the stages run in the order normalize, extract,
\* classify, respond, each at most once; a stage starts only after the
\* previous one returned; nothing is invoked after a failure; and the
\* invocation ends in exactly one of an EmailAnalysis and an error.
C5_StagesInOrder ==
    /\ trace = Take(StageOrder, Len(trace))
    /\ pc = "stage1" => trace = << >> /\ pending = NoError
    /\ pc = "stage2" => trace = Take(StageOrder, 1) /\ pending = NoError
                        /\ processed_email # NoProcessedEmail
    /\ pc = "stage3" => trace = Take(StageOrder, 2) /\ pending = NoError
    /\ pc = "stage4" => trace = Take(StageOrder, 3) /\ pending = NoError
                        /\ classification # NoClassification
    /\ pc = "assemble" => trace = StageOrder /\ pending = NoError
                          /\ response # NoResponse
    /\ pc = "except" => pending # NoError /\ analysis = NoAnalysis /\ error = NoError
    /\ pc = "returned" => trace = StageOrder /\ analysis # NoAnalysis /\ error = NoError
    /\ pc = "raised" => error # NoError /\ analysis = NoAnalysis
    /\ pc \in {"stage1", "stage2", "stage3", "stage4", "assemble", "except"} =>
          analysis = NoAnalysis /\ error = NoError
    /\ pc = "assemble" => ENABLED Assemble(0)
    /\ pc = "except" => ENABLED Except(0)

C5_Witness ==
    /\ pc = "raised"
    /\ trace = << "normalize", "extract", "classify" >>
    /\ response = NoResponse /\ ai_out = "not_called"

\* C6: if validation of the raw text fails, no stage 2-4 work happens: the
\* feature extractor, the classifier and its scorer, the response generator
\* and its AI service are not invoked.
C6_NoWorkAfterInvalidInput ==
    (pc # "idle" /\ ~ValidInput) =>
        /\ trace \in {<< >>, << "normalize" >>}
        /\ scorer_out = ScorerNotCalled /\ ai_out = "not_called"
        /\ processed_email = NoProcessedEmail
        /\ features = NoFeatures
        /\ classification = NoClassification
        /\ response = NoResponse

C6_Witness ==
    /\ pc = "raised" /\ email_content.trim_len = MAX_EMAIL_LENGTH + 1
    /\ trace = << "normalize" >>
    /\ classifier = "model" /\ external_ai_service = "svc"

\* C7: if the scorer raises or returns a malformed result, classify_email
\* does not fail: it returns exactly the rule-based result for the same
\* features, with method_used "rule_based"; the scorer's failure reaches
\* neither the caller of classify_email nor that of process_email.
C7_ScorerFailureFallsBack ==
    (scorer_out.kind \in {"raise", "malformed"} /\ fault # "rule_path") =>
        /\ classification = rule_based_classification(features, FALSE).value
        /\ classification.method_used = "rule_based"
        /\ pc \in {"except", "raised"} => fault = "template_path"

C7_Witness ==
    /\ pc = "stage4" /\ scorer_out.kind = "malformed"
    /\ classification.method_used = "rule_based"
    /\ classification.category = UNPRODUCTIVE

\* C8: if the external AI service is injected and available but raises or
\* returns an empty string, generate_response raises nothing and returns
\* exactly the template response for the category and the features.
C8_ResponderFailureFallsBack ==
    (ai_out \in {"raise", "empty"} /\ fault # "template_path") =>
        /\ pc \in {"assemble", "returned"}
        /\ response =
              generate_template_response(classification.category, features, FALSE).value
        /\ response.source = "template"

C8_Witness ==
    /\ pc = "assemble" /\ ai_out = "raise"
    /\ response = TemplateResponse("productive_0", << "plural", "projeto", "reunião", "prazo" >>)

\* the features of the rule-based scenario
RuleScenario ==
    /\ features.productive_score = 3 /\ features.unproductive_score = 0
    /\ features.word_count = 60
    /\ ~features.has_urls /\ features.exclamation_count = 0

\* C9 as stated: for productive_score = 3, unproductive_score = 0,
\* word_count = 60, no URL and no exclamation mark the rule-based classifier
\* returns productive with confidence 80.0 and method_used "rule_based".
C9_RuleBasedScenarioAsStated ==
    (Classified /\ RuleScenario /\ scorer_out.kind # "result") =>
        /\ classification.category = PRODUCTIVE
        /\ classification.confidence = 800
        /\ classification.method_used = "rule_based"

\* C9 as amended: for the same features the rule-based classifier returns
\* productive with method_used "rule_based" and confidence 86.7: the
\* optimal-length rule adds 2 to score as well as to max_score, so score = 11,
\* max_score = 11 and the confidence is min(0.5 + (11/12) * 0.4, 0.95).
C9_RuleBasedScenario ==
    (Classified /\ RuleScenario /\ scorer_out.kind # "result") =>
        /\ rule_score(features) = [score |-> 11, max_score |-> 11]
        /\ classification.category = PRODUCTIVE
        /\ classification.confidence = 867
        /\ classification.method_used = "rule_based"
        /\ classification.features_used = << "productive_keywords", "optimal_length" >>

C9_Witness ==
    /\ pc = "stage4" /\ RuleScenario /\ classifier = "None"
    /\ classification.confidence = 867

\* the blend the ML path is claimed to make of label, confidence c and
\* keyword score k: << category, confidence before adjustment >>
Blend(label, c, k) ==
    IF label = "POSITIVE"
    THEN IF k >= 0 THEN << PRODUCTIVE, c >>
         ELSE << UNPRODUCTIVE, Rat(c.num * 8, c.den * 10) >>
    ELSE IF k > 2 THEN << PRODUCTIVE, Rat(7, 10) >>
         ELSE << UNPRODUCTIVE, c >>

\* neither adjustment of the confidence applies to the features
NoAdjustment ==
    /\ ~(features.has_urls /\ features.exclamation_count > 2)
    /\ features.word_count >= 20

\* C10: for scorer label L, confidence c and keyword score k the ML path
\* gives (POSITIVE, k >= 0) -> (productive, c); (POSITIVE, k < 0) ->
\* (unproductive, 0.8 c); (NEGATIVE, k > 2) -> (productive, 0.7);
\* (NEGATIVE, k <= 2) -> (unproductive, c), reported unchanged as a
\* percentage when no adjustment applies; NEGATIVE / 0.9 with 4 productive
\* and no unproductive keywords gives productive, 70.0, "ml_with_rules".
C10_MLBlend ==
    (Classified /\ scorer_out.kind = "result"
        /\ scorer_out.label \in {"POSITIVE", "NEGATIVE"}) =>
        LET k == features.productive_score - features.unproductive_score
            b == Blend(scorer_out.label, Rat(scorer_out.score, 10000), k)
        IN  /\ classification.category = b[1]
            /\ classification.method_used = "ml_with_rules"
            /\ NoAdjustment => classification.confidence = RoundPercent(b[2])
            /\ (/\ scorer_out.label = "NEGATIVE" /\ scorer_out.score = 9000
                /\ features.productive_score = 4 /\ features.unproductive_score = 0
                /\ NoAdjustment) =>
                  /\ classification.category = PRODUCTIVE
                  /\ classification.confidence = 700

C10_Witness ==
    /\ pc = "stage4" /\ NoAdjustment
    /\ scorer_out = [kind |-> "result", label |-> "NEGATIVE", score |-> 9000]
    /\ features.productive_score = 4 /\ features.unproductive_score = 0
    /\ classification =
          ClassificationResult(PRODUCTIVE, 700, "ml_with_rules",
                               << "ml_sentiment", "keywords", "text_patterns" >>)

\* C11: for any interleaving of load_classification_model calls with the
\* same model name, the model loader (transformers.pipeline) builds a model
\* at most once, and all callers that return obtain the same model object.
C11_SingleFlightLoad ==
    /\ \A n \in ModelNames : loads[n] <= 1
    /\ \A t1, t2 \in Threads :
          (/\ model_name[t1] = model_name[t2]
           /\ returned[t1].ok /\ returned[t2].ok) =>
             returned[t1].value = returned[t2].value

\* C12: if the configured model could not be loaded at construction the
\* classifier holds no scorer, and every classify_email call then returns a
\* rule-based result without calling a scorer and without failing;
\* classify_email fails only when an unexpected exception strikes the chosen
\* path, and what then leaves it is ClassificationFailedError.
C12_FailsOnlyOnInternalError ==
    /\ pc # "init" =>
          (classifier = "None" <=> models[get_classification_model_name] = 0)
    /\ (classifier = "None" /\ Len(trace) >= 3 /\ fault # "rule_path") =>
          /\ scorer_out = ScorerNotCalled
          /\ classification # NoClassification
          /\ classification.method_used = "rule_based"
    /\ (pc = "except" /\ Len(trace) = 3) =>
          /\ fault = "rule_path"
          /\ pending.kind = "ClassificationFailedError"
          /\ classification = NoClassification

C12_Witness ==
    /\ pc = "stage4" /\ classifier = "None"
    /\ models[get_classification_model_name] = 0
    /\ processed_email.processed_text.len > MIN_EMAIL_LENGTH
    /\ classification.method_used = "rule_based"

\* C13: generate_response fails if and only if the template path fails: a
\* failure of the external AI service alone never makes it fail, and when
\* the template path raises, with or without the AI service tried first,
\* the caller receives ResponseGenerationError wrapping the raw exception.
C13_FailsIffTemplatePathFails ==
    Len(trace) = 4 =>
        /\ (pc \in {"except", "raised"}) <=> (fault = "template_path")
        /\ (pc = "except") =>
              /\ pending.kind = "ResponseGenerationError"
              /\ pending.context = << "Exception" >>
        /\ fault = "template_path" =>
              /\ response = NoResponse
              /\ ~(calls_ai(external_ai_service, ai_out) /\ ai_out = "text")
        /\ fault # "template_path" =>
              /\ response # NoResponse
              /\ pending = NoError /\ error = NoError

C13_Witness ==
    /\ pc = "except" /\ Len(trace) = 4
    /\ ai_out = "raise"
    /\ pending = RaiseFrom("ResponseGenerationError", Raise("Exception"))

\* the stage outputs of the running invocation are the values the stage
\* functions give for this invocation's input, the configuration and the
\* answer of the scorer stub, and depend on nothing else
StageOutputsDetermined ==
    /\ processed_email # NoProcessedEmail =>
          processed_email = preprocess_text(email_content).value
    /\ features # NoFeatures =>
          features = extract_features(processed_email)
    /\ classification # NoClassification =>
          /\ classification =
                classify_email(classifier, processed_email, features, scorer_out, FALSE).value
          /\ scorer_out.kind # "result" =>
                classification = rule_based_classification(features, FALSE).value
    /\ pc = "idle" =>
          /\ processed_email = NoProcessedEmail /\ features = NoFeatures
          /\ classification = NoClassification /\ response = NoResponse

C15_AnalysisFromStageOutputs ==
    pc = "returned" =>
        /\ analysis.category = classification.category
        /\ analysis.confidence = classification.confidence
        /\ analysis.word_count = processed_email.word_count
        /\ analysis.word_count = email_content.tokens
        /\ analysis.response = response
        /\ analysis.keywords_found =
              features.productive_keywords \o features.unproductive_keywords
        /\ analysis.sentiment_score.num * 1000 =
              analysis.confidence * analysis.sentiment_score.den

C15_Witness ==
    /\ pc = "returned"
    /\ analysis.keywords_found = << "projeto", "reunião", "spam", "promoção" >>
    /\ analysis.word_count = 120
    /\ analysis.response.source = "ai"
    /\ analysis.confidence = 900

\* C16: classify_email calls the scorer if and only if a scorer is loaded
\* and len(processed_text) > MIN_EMAIL_LENGTH (strictly); otherwise it takes
\* the rule-based path directly, so a valid email whose canonical text is
\* no longer than MIN_EMAIL_LENGTH is classified rule-based even with a
\* scorer present.
C16_PathSelection ==
    Len(trace) >= 3 =>
        /\ (scorer_out # ScorerNotCalled) <=>
              (/\ classifier = "model"
               /\ processed_email.processed_text.len > MIN_EMAIL_LENGTH)
        /\ (scorer_out = ScorerNotCalled /\ fault # "rule_path") =>
              /\ classification.method_used = "rule_based"
              /\ classification = rule_based_classification(features, FALSE).value
        /\ scorer_out.kind = "result" =>
              classification.method_used = "ml_with_rules"

C16_Witness ==
    /\ pc = "stage4" /\ classifier = "model"
    /\ ValidInput
    /\ processed_email.processed_text.len = MIN_EMAIL_LENGTH
    /\ scorer_out = ScorerNotCalled
    /\ classification.method_used = "rule_based"

\* the call is one of _combine_ml_and_rules that has returned
BlendCalled == call.fn = "_combine_ml_and_rules"

\* the confidence of the blend, before the adjustment
Prior == Blend(call.ml_label, call.ml_confidence,
               call.features.productive_score - call.features.unproductive_score)

UrlNudge == call.features.has_urls /\ call.features.exclamation_count > 2
ShortNudge == call.features.word_count < 20

\* c moved by d towards the category and clamped to [0.3, 0.99]
NudgeClamped(c, d, category) ==
    LET moved == IF category = UNPRODUCTIVE THEN RatAdd(c, d) ELSE RatAdd(c, Rat(-d.num, d.den))
    IN  RatMax(Rat(3, 10), RatMin(Rat(99, 100), moved))

\* c moved up by d but not above 0.99 (unproductive), or down by d but not
\* below 0.3 (productive)
NudgeOneSided(c, d, category) ==
    IF category = UNPRODUCTIVE THEN RatMin(RatAdd(c, d), Rat(99, 100))
    ELSE RatMax(RatAdd(c, Rat(-d.num, d.den)), Rat(3, 10))

InRange(c) == ~RatLess(c, Rat(3, 10)) /\ ~RatLess(Rat(99, 100), c)

RuleCalled == call.fn = "_rule_based_classification"

\* << change of score, change of maxScore >> of each rule, as C18 lists them
ProductiveRule(f) ==
    IF f.productive_score > 0
    THEN << 3 * f.productive_score, 3 * f.productive_score >> ELSE << 0, 0 >>
UnproductiveRule(f) ==
    IF f.unproductive_score > 0
    THEN << -(3 * f.unproductive_score), 3 * f.unproductive_score >> ELSE << 0, 0 >>
LengthRule(f) ==
    IF 50 < f.word_count /\ f.word_count < 500 THEN << 2, 2 >>
    ELSE IF f.word_count < 30 THEN << -1, 1 >>
    ELSE << 0, 0 >>
UrlRule(f) == IF f.has_urls THEN << -1, 1 >> ELSE << 0, 0 >>
ExclamationRule(f) == IF f.exclamation_count > 3 THEN << -2, 2 >> ELSE << 0, 0 >>

StatedRules(f) ==
    << ProductiveRule(f), UnproductiveRule(f), LengthRule(f), UrlRule(f),
       ExclamationRule(f) >>
StatedScore(f) ==
    LET r == StatedRules(f) IN r[1][1] + r[2][1] + r[3][1] + r[4][1] + r[5][1]
StatedMaxScore(f) ==
    LET r == StatedRules(f) IN r[1][2] + r[2][2] + r[3][2] + r[4][2] + r[5][2]

\* n tenths of a percent is the confidence c as a percentage rounded to one
\* decimal: no other number of tenths is nearer to it
IsRoundedPercent(n, c) == 2 * Abs(n * c.den - 1000 * c.num) <= c.den

\* C18: the rule-based procedure starts from score = maxScore = 0 and
\* applies the keyword, length, URL and exclamation rules (word counts
\* 30..50 and >= 500 change nothing); the result is Productive iff
\* score > 0, its confidence is min(0.5 + (|score|/(maxScore+1))*0.4, 0.95)
\* as a percentage rounded to one decimal, and methodUsed is "rule_based".
C18_RuleBasedProcedure ==
    RuleCalled =>
        LET f == call.features
            score == StatedScore(f)
            maxScore == StatedMaxScore(f)
            confidence == RatMin(RatAdd(Rat(1, 2),
                                        RatMul(Rat(Abs(score), maxScore + 1), Rat(4, 10))),
                                 Rat(95, 100))
        IN  /\ result.value.category = PRODUCTIVE <=> score > 0
            /\ result.value.category \in {PRODUCTIVE, UNPRODUCTIVE}
            /\ IsRoundedPercent(result.value.confidence, confidence)
            /\ result.value.method_used = "rule_based"

C18_Witness ==
    /\ RuleCalled
    /\ call.features.productive_score = 0 /\ call.features.unproductive_score = 1
    /\ call.features.word_count = 500 /\ call.features.has_urls
    /\ call.features.exclamation_count = 3
    /\ result.value.category = UNPRODUCTIVE
    /\ result.value.confidence = 820

\* one of the two classification procedures was called and has returned
PathCalled == call.fn \in {"_rule_based_classification", "_ml_classification"}

\* the tags of the rule-based path in their fixed order
RuleTags ==
    << "productive_keywords", "unproductive_keywords", "optimal_length",
       "short_length", "has_urls", "excessive_exclamation" >>

\* whether the rule a tag names fired on features f
Fired(f, tag) ==
    CASE tag = "productive_keywords" -> f.productive_score > 0
      [] tag = "unproductive_keywords" -> f.unproductive_score > 0
      [] tag = "optimal_length" -> 50 < f.word_count /\ f.word_count < 500
      [] tag = "short_length" -> f.word_count < 30
      [] tag = "has_urls" -> f.has_urls
      [] tag = "excessive_exclamation" -> f.exclamation_count > 3

Range(seq) == { seq[i] : i \in DOMAIN seq }
Position(tag) == CHOOSE i \in DOMAIN RuleTags : RuleTags[i] = tag

\* tags are exactly those of the rules that fired on f, once each, in the
\* order of RuleTags, and never both length tags
ExactlyFiredTags(tags, f) ==
    /\ Range(tags) \subseteq Range(RuleTags)
    /\ \A tag \in Range(RuleTags) : tag \in Range(tags) <=> Fired(f, tag)
    /\ \A i, j \in DOMAIN tags : i < j => Position(tags[i]) < Position(tags[j])
    /\ ~({"optimal_length", "short_length"} \subseteq Range(tags))

\* an adjustment of the ML path applied to the confidence
AdjustmentApplied(f) ==
    \/ f.has_urls /\ f.exclamation_count > 2
    \/ f.word_count < 20

RespondCalled == call.fn = "generate_response"

\* how often a call occurs among the calls made
Count(calls, name) == Cardinality({ i \in DOMAIN calls : calls[i] = name })

\* the first position of a call among the calls made, 0 if it was not made
First(calls, name) ==
    IF Count(calls, name) = 0 THEN 0
    ELSE CHOOSE i \in DOMAIN calls :
             calls[i] = name /\ \A j \in DOMAIN calls : calls[j] = name => i <= j

\* C20: generate_response invokes generate_ai_response only if an external
\* AI service is injected and its is_available() returned true before, and
\* at most once per call; a non-empty string it returns is the response and
\* no template is selected; in every other case (no service, unavailable,
\* exception, empty output) the template path is taken and its result is
\* the result of the call.
C20_ResponderUse ==
    RespondCalled =>
        LET calls == result.calls
            asked == Count(calls, "generate_ai_response")
        IN  /\ asked <= 1
            /\ asked = 1 =>
                  /\ external_ai_service # "None"
                  /\ call.ai # "unavailable"
                  /\ First(calls, "is_available") > 0
                  /\ First(calls, "is_available") < First(calls, "generate_ai_response")
            /\ (external_ai_service = "None" \/ call.ai = "unavailable") => asked = 0
            /\ (asked = 1 /\ call.ai = "text") =>
                  /\ result.ok /\ result.value = AIResponse
                  /\ Count(calls, "_generate_template_response") = 0
            /\ ~(asked = 1 /\ call.ai = "text") =>
                  /\ Count(calls, "_generate_template_response") = 1
                  /\ result.ok <=> ~call.template_fault
                  /\ result.ok =>
                        /\ result.value.source = "template"
                        /\ result.value =
                              IF call.category = PRODUCTIVE
                              THEN generate_productive_response(call.features)
                              ELSE generate_unproductive_response(call.features)

\* the service answered with an empty string after is_available() and one
\* generate_ai_response, and the template was returned
C20_Witness ==
    /\ RespondCalled /\ call.ai = "empty"
    /\ result.calls = << "is_available", "generate_ai_response", "_generate_template_response" >>
    /\ result.ok /\ result.value.source = "template"

\* _generate_template_response was called for a category and has returned
TemplateCalled(category) ==
    call.fn = "_generate_template_response" /\ call.category = category

\* C21: the productive template is template 0 if wordCount > 100 and
\* productiveScore > 2, otherwise template 1 if wordCount > 50, otherwise
\* template 2; so wordCount > 100 with productiveScore <= 2 gives template
\* 1, wordCount = 50 with productiveScore > 2 gives template 2 and
\* wordCount = 100 with productiveScore > 2 gives template 1.
C21_ProductiveTemplateSelection ==
    TemplateCalled(PRODUCTIVE) =>
        LET wordCount == call.features.word_count
            productiveScore == call.features.productive_score
            chosen == result.value.template
        IN  /\ result.value.source = "template"
            /\ chosen \in Range(ProductiveTemplates)
            /\ chosen = ProductiveTemplates[1] <=> (wordCount > 100 /\ productiveScore > 2)
            /\ chosen = ProductiveTemplates[2] <=>
                  (~(wordCount > 100 /\ productiveScore > 2) /\ wordCount > 50)
            /\ chosen = ProductiveTemplates[3] <=> wordCount <= 50
            /\ (wordCount > 100 /\ productiveScore <= 2) => chosen = ProductiveTemplates[2]
            /\ (wordCount = 50 /\ productiveScore > 2) => chosen = ProductiveTemplates[3]
            /\ (wordCount = 100 /\ productiveScore > 2) => chosen = ProductiveTemplates[2]

C21_Witness ==
    /\ TemplateCalled(PRODUCTIVE)
    /\ call.features.word_count = 100 /\ call.features.productive_score = 3
    /\ result.value.template = "productive_1"

\* C22: in the productive template response only templates 0 and 1 embed
\* the generated context sentence; template 2 is returned as it is, so the
\* response with template 2 does not depend on the productive keywords.
C22_OnlyTemplates01EmbedContext ==
    TemplateCalled(PRODUCTIVE) =>
        /\ result.value.template \in {ProductiveTemplates[1], ProductiveTemplates[2]} =>
              result.value.context =
                  generate_context_for_productive(call.features.productive_keywords)
        /\ result.value.template = ProductiveTemplates[3] =>
              result.value = TemplateResponse(ProductiveTemplates[3], << >>)

\* C23: the unproductive template is template 1 if hasUrls or
\* exclamationCount > 2, otherwise template 0 if unproductiveScore > 2,
\* otherwise template 2; the URL/exclamation rule wins over the keyword
\* rule, and the response is the selected template with nothing filled in.
C23_UnproductiveTemplateSelection ==
    TemplateCalled(UNPRODUCTIVE) =>
        LET spam == call.features.has_urls \/ call.features.exclamation_count > 2
            unproductiveScore == call.features.unproductive_score
            chosen == result.value.template
        IN  /\ result.value.source = "template"
            /\ chosen \in Range(UnproductiveTemplates)
            /\ chosen = UnproductiveTemplates[2] <=> spam
            /\ chosen = UnproductiveTemplates[1] <=> (~spam /\ unproductiveScore > 2)
            /\ chosen = UnproductiveTemplates[3] <=> (~spam /\ unproductiveScore <= 2)
            /\ (spam /\ unproductiveScore > 2) => chosen = UnproductiveTemplates[2]
            /\ result.value.context = << >>

\* a URL together with three unproductive keywords: the direct rejection
C23_Witness ==
    /\ TemplateCalled(UNPRODUCTIVE)
    /\ call.features.has_urls /\ call.features.unproductive_score = 3
    /\ call.features.exclamation_count = 2
    /\ result.value = TemplateResponse("unproductive_1", << >>)

\* _generate_context_for_productive was called and has returned
ContextCalled == call.fn = "_generate_context_for_productive"

\* C24: the context sentence uses at most the first 3 productive keywords
\* in their list order: the default sentence for none, the singular
\* phrasing naming the one keyword, the dual phrasing naming both, and for
\* 3 or more the plural phrasing naming the first three (the first two
\* separated by a comma, then "e" and the third); a keyword beyond the
\* third never appears.
C24_ContextSentence ==
    ContextCalled =>
        LET k == call.productive_keywords
            sentence == result.value
        IN  /\ Len(k) = 0 =>
                  sentence = << "Acredito que podemos trabalhar juntos para alcançar os objetivos mencionados." >>
            /\ Len(k) = 1 =>
                  sentence = << "Em relação ao ponto sobre ", k[1],
                                ", acredito que podemos desenvolver uma abordagem eficaz." >>
            /\ Len(k) = 2 =>
                  sentence = << "Em relação aos pontos sobre ", k[1], " e ", k[2],
                                ", vejo grande potencial para colaboração." >>
            /\ Len(k) >= 3 =>
                  sentence = << "Em relação aos pontos sobre ", k[1], ", ", k[2], " e ", k[3],
                                ", acredito que podemos desenvolver uma abordagem eficaz." >>
            /\ \A i \in DOMAIN k : i > 3 => k[i] \notin Range(sentence)

\* four keywords were found and the sentence names the first three
C24_Witness ==
    /\ ContextCalled
    /\ call.productive_keywords = << "projeto", "reunião", "prazo", "entrega" >>
    /\ result.value = << "Em relação aos pontos sobre ", "projeto", ", ", "reunião", " e ",
                          "prazo", ", acredito que podemos desenvolver uma abordagem eficaz." >>

\* preprocess_text was called on tokens and has returned
TokensCalled == call.fn = "preprocess_text"

\* the positions of a sequence whose token is no stop-word and is longer
\* than 2 characters
KeptPositions(tokens) ==
    { i \in DOMAIN tokens : tokens[i] \notin stop_words /\ TokenLength[tokens[i]] > 2 }

\* the number of kept positions of tokens up to position i
KeptUpTo(tokens, i) == Cardinality({ j \in KeptPositions(tokens) : j <= i })

\* C25: wordCount is the number of tokens before filtering; filteredTokens
\* is the subsequence, in order, of exactly the tokens that are no stop-word
\* and longer than 2; lemmatizedTokens and stemmedTokens are as long as
\* filteredTokens; canonicalText is the lemmatized tokens joined by single
\* spaces. Hence wordCount >= len(filteredTokens).
C25_NormalizedText ==
    TokensCalled =>
        LET tokens == call.tokens
            pe == result.value
            kept == KeptPositions(tokens)
        IN  /\ pe.word_count = Len(tokens)
            /\ Len(pe.filtered_tokens) = Cardinality(kept)
            /\ \A i \in kept : pe.filtered_tokens[KeptUpTo(tokens, i)] = tokens[i]
            /\ Len(pe.lemmatized_tokens) = Len(pe.filtered_tokens)
            /\ Len(pe.stemmed_tokens) = Len(pe.filtered_tokens)
            /\ Len(pe.processed_text) =
                  IF pe.lemmatized_tokens = << >> THEN 0
                  ELSE 2 * Len(pe.lemmatized_tokens) - 1
            /\ \A i \in DOMAIN pe.lemmatized_tokens :
                  pe.processed_text[2 * i - 1] = pe.lemmatized_tokens[i]
            /\ \A i \in DOMAIN pe.processed_text :
                  i % 2 = 0 => pe.processed_text[i] = " "
            /\ pe.word_count >= Len(pe.filtered_tokens)

\* a text of stop-words and short tokens only: wordCount is positive while
\* canonicalText is empty
C25_Witness ==
    /\ TokensCalled
    /\ call.tokens = << "the", "ok", "de" >>
    /\ result.value.word_count = 3
    /\ result.value.filtered_tokens = << >>
    /\ result.value.processed_text = << >>

\* whether keyword, letter case set aside, is a substring of text
OccursIgnoringCase(keyword, text) ==
    \E start \in 0 .. Len(text) - Len(keyword) :
        \A j \in DOMAIN keyword : lower(text[start + j]) = lower(keyword[j])

\* matches lists the keywords at the positions hits of the configured list,
\* as configured, in configured order, each once
ListsConfigured(matches, hits, configured) ==
    /\ Len(matches) = Cardinality(hits)
    /\ \A i \in hits :
          matches[Cardinality({ j \in hits : j <= i })] = configured[i]

\* C26: the keyword list found is exactly the subsequence of the configured
\* list whose lower-case form occurs in canonicalText, in configured order
\* and casing, each keyword at most once however often it occurs;
\* productiveScore and unproductiveScore are the lengths of the two lists;
\* hasUrls, exclamationCount and questionCount are those of the raw original
\* text.
C26_KeywordMatching ==
    /\ call.fn = "_find_keyword_matches" =>
          ListsConfigured(result.value,
                          { i \in DOMAIN call.keywords :
                              OccursIgnoringCase(call.keywords[i], call.text) },
                          call.keywords)
    /\ call.fn = "extract_features" =>
          LET pe == call.processed_email
              f == result.value
          IN  /\ ListsConfigured(f.productive_keywords, pe.processed_text.productive,
                                  PRODUCTIVE_KEYWORDS)
              /\ ListsConfigured(f.unproductive_keywords, pe.processed_text.unproductive,
                                  UNPRODUCTIVE_KEYWORDS)
              /\ f.productive_score = Len(f.productive_keywords)
              /\ f.unproductive_score = Len(f.unproductive_keywords)
              /\ f.has_urls = pe.original_text.has_urls
              /\ f.exclamation_count = pe.original_text.exclamation_count
              /\ f.question_count = pe.original_text.question_count

\* the text "bab" holds "ab", "ba" and twice "b": the keywords "Ab", "ba"
\* and "B" are listed once each, as configured
C26_Witness ==
    /\ call.fn = "_find_keyword_matches"
    /\ call.text = << "b", "a", "b" >>
    /\ result.value = << << "A", "b" >>, << "b", "a" >>, << "B" >> >>

\* 0.5 + (|score| / (max_score + 1)) * 0.4, before the cap and the rounding
UncappedConfidence(r) ==
    RatAdd(Rat(1, 2), RatMul(Rat(Abs(r.score), r.max_score + 1), Rat(4, 10)))

\* C27: at the decision point of the rule-based classifier maxScore >= 0
\* and |score| <= maxScore; so the confidence before rounding is in
\* [0.5, 0.9), the cap 0.95 never takes effect, and the reported confidence
\* is within [50.0, 90.0].
C27_RuleConfidenceRange ==
    RuleCalled =>
        LET r == rule_score(call.features)
            uncapped == UncappedConfidence(r)
        IN  /\ r.max_score >= 0
            /\ Abs(r.score) <= r.max_score
            /\ ~RatLess(uncapped, Rat(1, 2))
            /\ RatLess(uncapped, Rat(9, 10))
            /\ RatMin(uncapped, Rat(95, 100)) = uncapped
            /\ IsRoundedPercent(result.value.confidence, uncapped)
            /\ result.value.confidence \in 500 .. 900

\* the largest confidence of the grid: every rule fired for the category
C27_Witness ==
    /\ RuleCalled
    /\ call.features.productive_score = MaxProd /\ call.features.unproductive_score = 0
    /\ call.features.word_count = 51 /\ ~call.features.has_urls
    /\ call.features.exclamation_count = 3
    /\ rule_score(call.features).score = rule_score(call.features).max_score
    /\ result.value.confidence > 850
    /\ result.value.confidence < 900

\* no length, URL or exclamation rule fires on f
NoPatternRule(f) ==
    /\ (30 <= f.word_count /\ f.word_count <= 50) \/ f.word_count >= 500
    /\ ~f.has_urls
    /\ f.exclamation_count <= 3

\* C28: in the rule-based classifier a score of exactly 0 gives
\* Unproductive with confidence 50.0; so do features without keyword
\* matches, 30 <= wordCount <= 50, no URL and at most 3 exclamation marks,
\* with an empty featuresUsed, and productiveScore = 1 with
\* unproductiveScore = 1 when no other rule fires; every Productive result
\* has a confidence above 50.0.
C28_TieIsUnproductive ==
    RuleCalled =>
        LET f == call.features
            r == result.value
        IN  /\ StatedScore(f) = 0 => (r.category = UNPRODUCTIVE /\ r.confidence = 500)
            /\ (f.productive_score = 0 /\ f.unproductive_score = 0 /\ NoPatternRule(f)
                 /\ f.word_count <= 50) =>
                  /\ r.category = UNPRODUCTIVE /\ r.confidence = 500
                  /\ r.features_used = << >>
            /\ (f.productive_score = 1 /\ f.unproductive_score = 1 /\ NoPatternRule(f)) =>
                  (r.category = UNPRODUCTIVE /\ r.confidence = 500)
            /\ r.category = PRODUCTIVE => r.confidence > 500

\* one productive and one unproductive keyword in a text of 50 words
C28_Witness ==
    /\ RuleCalled
    /\ call.features.productive_score = 1 /\ call.features.unproductive_score = 1
    /\ call.features.word_count = 50 /\ NoPatternRule(call.features)
    /\ result.value.category = UNPRODUCTIVE
    /\ result.value.confidence = 500
    /\ result.value.features_used = << "productive_keywords", "unproductive_keywords" >>

\* the identifiers in the cache self._models
CachedNames == { n \in ModelNames : models[n] # 0 }

\* load_classification_model was called, directly or by is_model_available
LoadCalled == call.fn \in {"load_classification_model", "is_model_available"}

\* C29: in any single-threaded sequence of load_classification_model,
\* unload_model, is_model_available and get_loaded_models calls, a load of
\* a cached identifier returns the cached object without invoking the
\* loader; a load of an identifier that is not cached (never loaded, or
\* unloaded since) invokes the loader; a failed load raises
\* ModelNotAvailableError and leaves the cache unchanged; and the
\* identifiers get_loaded_models returns are always those in the cache.
C29_ModelCache ==
    /\ { n \in ModelNames : model_info[n] } = CachedNames
    /\ (call.fn = "get_loaded_models") => result.returned.value = CachedNames
    /\ (LoadCalled /\ call.models[call.model_name] # 0) =>
          /\ result.loader_calls = 0
          /\ models = call.models
          /\ call.fn = "load_classification_model" =>
                result.returned = Ok(call.models[call.model_name])
          /\ call.fn = "is_model_available" => result.returned = Ok(TRUE)
    /\ (LoadCalled /\ call.models[call.model_name] = 0) =>
          /\ result.loader_calls = 1
          /\ call.fn = "load_classification_model" =>
                IF result.returned.ok
                THEN /\ models = [call.models EXCEPT ![call.model_name] = result.returned.value]
                     /\ result.returned.value # 0
                     /\ \A n \in ModelNames : call.models[n] # result.returned.value
                ELSE /\ result.returned.exc.kind = "ModelNotAvailableError"
                     /\ models = call.models
                     /\ model_info = call.model_info
          /\ call.fn = "is_model_available" =>
                IF result.returned.value
                THEN models[call.model_name] # 0
                ELSE models = call.models /\ model_info = call.model_info
    /\ (call.fn = "unload_model") =>
          models = [call.models EXCEPT ![call.model_name] = 0]

\* the configured model was loaded, unloaded and is loaded again by a
\* second run of the loader
C29_Witness ==
    /\ call.fn = "load_classification_model"
    /\ call.model_name = CLASSIFICATION_MODEL
    /\ call.models[CLASSIFICATION_MODEL] = 0
    /\ result.returned.ok /\ result.loader_calls = 1
    /\ loads[CLASSIFICATION_MODEL] = 2
    /\ models[CLASSIFICATION_MODEL] = result.returned.value

\* the components every initialized container holds
Mandatory == Components \ {"external_ai"}

\* C30: every getter raises while the container is not initialized;
\* initialize() on an initialized container changes nothing and keeps the
\* instances; if initialize() fails part-way the container stays
\* uninitialized, so the getters keep raising, and a later initialize()
\* builds every component again.
C30_ContainerLifecycle ==
    /\ container.initialized => \A k \in Mandatory : container.instances[k] # 0
    /\ (call.fn = "get" /\ ~call.container.initialized) =>
          (~result.returned.ok /\ result.returned.exc.kind = "RuntimeError")
    /\ (call.fn = "get" /\ call.container.initialized) =>
          result.returned = Ok(call.container.instances[call.key])
    /\ (call.fn = "initialize" /\ call.container.initialized) =>
          (result.returned.ok /\ container = call.container)
    /\ (call.fn = "initialize" /\ ~call.container.initialized) =>
          /\ result.returned.ok <=> call.fail_at > Len(ComponentKeys)
          /\ container.initialized <=> result.returned.ok
          /\ result.returned.ok =>
                \A k \in Mandatory : container.instances[k] = container.runs
          /\ container.runs = call.container.runs + 1

\* a first initialize() failed in the services; the second one succeeded
\* and every component is of the second run
C30_Witness ==
    /\ call.fn = "initialize"
    /\ ~call.container.initialized
    /\ call.container.instances["config"] = 1
    /\ call.container.instances["response"] = 0
    /\ container.initialized
    /\ \A k \in Mandatory : container.instances[k] = 2

====
